---- MODULE Spec2Model ----
(***************************************************************************)
(* The multi-round crowding-aware assignment of train-ute                   *)
(* (train-ute/src/simulation.rs): run_simulation drives num_rounds rounds;  *)
(* run_simulation_round processes the simulation steps in parallel, each    *)
(* step querying the multi-label shortest-path primitive (raptor's          *)
(* mc_raptor_query, an external crate) and range-coding every leg into a    *)
(* shared array of atomic counters, then snapshots the counters, prefix-    *)
(* sums them per trip and derives the per-segment crowding cost.            *)
(*                                                                         *)
(* Arrays of the program are functions over 0..n-1, vectors that are only   *)
(* appended to and iterated are sequences.                                  *)
(***************************************************************************)
EXTENDS Integers, Sequences, FiniteSets, TLC

\* ------------------------------------------------------------------ bounds

\* The largest num_rounds a run is configured with.
MaxRounds == 3
\* The largest passenger count of one (step, destination) entry.
MaxCount == 2
\* The largest number of calls made on a TripCapacities registry.
MaxCalls == 3
\* The largest number of rows of a demand file.
MaxRows == 3


\* ----------------------------------------------------------- number types

\* PopulationCount = i32: its largest value.  Sums and differences of two
\* i32 are formed without ever leaving the i32 range.
I32Max == 2147483647

\* Whether x + y leaves the i32 range.
AddOverflows(x, y) ==
    \/ y > 0 /\ x > I32Max - y
    \/ y < 0 /\ x < (-I32Max - 1) - y

\* i32::wrapping_add and i32::wrapping_sub.
WrappingAdd(x, y) ==
    IF y > 0 /\ x > I32Max - y THEN (x - I32Max - 1) + (y - I32Max - 1)
    ELSE IF y < 0 /\ x < (-I32Max - 1) - y
         THEN (x + I32Max + 1) + (y + I32Max + 1)
         ELSE x + y

WrappingSub(x, y) ==
    IF y < 0 /\ x > I32Max + y THEN (x - I32Max - 1) - (y + I32Max + 1)
    ELSE IF y > 0 /\ x < (-I32Max - 1) + y
         THEN (x + I32Max + 1) + ((I32Max - y) + 1)
         ELSE x - y

\* Whether x * y leaves the i32 range, for x, y >= 0.
MulOverflows(x, y) == x > 0 /\ y > I32Max \div x

\* i32::wrapping_mul, by doubling: no intermediate value leaves the i32 range.
RECURSIVE WrappingMul(_, _)
WrappingMul(x, y) ==
    IF y < 0 THEN WrappingSub(0, WrappingAdd(WrappingMul(x, -(y + 1)), x))
    ELSE IF y = 0 THEN 0
    ELSE CHOOSE product \in
            {IF y % 2 = 1 THEN WrappingAdd(rest, x) ELSE rest :
                rest \in {WrappingMul(doubled, y \div 2) :
                             doubled \in {WrappingAdd(x, x)}}} : TRUE

\* AgentCount = u32.  A count is kept as two parts, its value being
\* hi * 2^31 + lo with lo <= I32Max; a u32 has hi <= 1.
U32(hi, lo) == [hi |-> hi, lo |-> lo]

U32Max == U32(1, I32Max)

\* The exact sum of two counts, in the same two parts (hi unbounded).
CountAdd(x, y) ==
    LET carry == IF x.lo > I32Max - y.lo THEN 1 ELSE 0
        lo == IF carry = 1 THEN (x.lo - (I32Max - y.lo)) - 1 ELSE x.lo + y.lo
    IN U32(x.hi + y.hi + carry, lo)

\* An i64 is kept in two parts as well, its value being hi * 2^31 + lo with
\* 0 <= lo <= I32Max; hi is negative for a negative value.
I64(hi, lo) == [hi |-> hi, lo |-> lo]

\* The i64 of an integer of the i32 range.
I64Of(n) == IF n >= 0 THEN I64(0, n) ELSE I64(-1, (I32Max + n) + 1)

\* Mutant: the cast saturates at the ends of the u32 range.
I64AsU32Saturating(x) ==
    IF x.hi < 0 THEN U32(0, 0) ELSE IF x.hi >= 2 THEN U32Max ELSE U32(x.hi, x.lo)

\* `x as u32` of an i64: the cast keeps the low 32 bits.
I64AsU32(x) == U32(x.hi % 2, x.lo)

\* `count as PopulationCount`: the u32 -> i32 cast reinterprets the bits.
AsPopulationCount(count) ==
    IF count.hi = 1 THEN (count.lo - I32Max) - 1 ELSE count.lo

RECURSIVE GCD(_, _)
GCD(a, b) == IF b = 0 THEN a ELSE GCD(b, a % b)

Abs(x) == IF x < 0 THEN -x ELSE x

\* A CrowdingCost (a float) is kept exact, as a reduced fraction <<num, den>>.
Rat(n, d) ==
    LET g == GCD(Abs(n), d) IN <<n \div g, d \div g>>

ZeroCost == <<0, 1>>

RatTimes(q, k) == Rat(q[1] * k, q[2])

\* ---------------------------------------------------------------- network

\* The timetable the runs use: route 0 has two trips over three stops, route
\* 1 one trip over two stops; each trip occupies a contiguous range of the
\* flat stop_times array.  The middle stop time of trip T1 and the last one of
\* route 1 depart before the previous arrival (a malformed timetable the code
\* tolerates).
routes ==
    (0 :> [num_trips |-> 2, num_stops |-> 3, first |-> 0,
           trip_ids |-> (0 :> "T0" @@ 1 :> "T1")]) @@
    (1 :> [num_trips |-> 1, num_stops |-> 2, first |-> 6,
           trip_ids |-> (0 :> "U0")])

RouteIdx == DOMAIN routes

stop_times ==
    (0 :> [arrival_time |-> 0,   departure_time |-> 0])   @@
    (1 :> [arrival_time |-> 60,  departure_time |-> 60])  @@
    (2 :> [arrival_time |-> 120, departure_time |-> 120]) @@
    (3 :> [arrival_time |-> 100, departure_time |-> 100]) @@
    (4 :> [arrival_time |-> 160, departure_time |-> 90])  @@
    (5 :> [arrival_time |-> 220, departure_time |-> 220]) @@
    (6 :> [arrival_time |-> 300, departure_time |-> 300]) @@
    (7 :> [arrival_time |-> 360, departure_time |-> 290])

\* network.stop_times.len()
NumStopTimes == Cardinality(DOMAIN stop_times)

StopTimeIdx == 0 .. NumStopTimes - 1

\* route.get_trip_range(trip): the trip's range of the flat array.
get_trip_range(route_idx, trip) ==
    LET route == routes[route_idx] IN
    [start |-> route.first + trip * route.num_stops, len |-> route.num_stops]

\* ---------------------------------------------------------- crowding model

\* The capacities the runs use: an override for trip T0, the default (1, 1)
\* for every other trip.
DefaultCapacity == [seated |-> 1, standing |-> 1]

trip_capacities ==
    [default |-> DefaultCapacity,
     overrides |-> ("T0" :> [seated |-> 2, standing |-> 2])]

\* Mutant: the override is not consulted.
TripCapacitiesGetDefault(caps, trip_id) == caps.default

\* TripCapacities::get
TripCapacitiesGet(caps, trip_id) ==
    IF trip_id \in DOMAIN caps.overrides THEN caps.overrides[trip_id]
    ELSE caps.default

\* TripCapacity::total
total(cap) == cap.seated + cap.standing

\* CrowdingFunc::linear
linear(cap, x) == Rat(x, total(cap))

\* CrowdingFunc::quadratic: both products are formed in i32 (they wrap in a
\* release build) before the conversion to a cost.
quadratic(cap, x) ==
    Rat(WrappingMul(x, x), WrappingMul(total(cap), total(cap)))

\* The crowding function of the run's parameters.
crowding_function == "Linear"

\* CrowdingFunc::crowding_cost, for the two parameter-free variants.
CrowdingFuncCost(func, cap, count) ==
    IF func = "Linear" THEN linear(cap, count) ELSE quadratic(cap, count)

crowding_cost_of(cap, count) == CrowdingFuncCost(crowding_function, cap, count)

\* Whether the evaluation panics: a product of quadratic overflows in a
\* debug build.
CrowdingFuncPanics(func, cap, count, debug) ==
    /\ debug
    /\ func = "Quadratic"
    /\ MulOverflows(count, count) \/ MulOverflows(total(cap), total(cap))

\* Whether one cost is at most another (denominators are positive).
CostLeq(p, q) ==
    LET ip == p[1] \div p[2]
        iq == q[1] \div q[2]
    IN \/ ip < iq
       \/ ip = iq /\ (p[1] % p[2]) * q[2] <= (q[1] % q[2]) * p[2]

\* DefaultSimulationParams::cost_fn (its debug assertion is checked by the
\* finalization, which knows the build).
cost_fn(trip_id, count) ==
    crowding_cost_of(TripCapacitiesGet(trip_capacities, trip_id), count)

\* ------------------------------------------------------------------- MLSP

\* raptor::Leg: a boarding of trip (route_idx, trip_order) from one stop
\* order to another.
Leg(r, t, b, a) ==
    [trip |-> [route_idx |-> r, trip_order |-> t],
     boarded_stop_order |-> b, arrival_stop_order |-> a]

\* The two forms of a query's per-destination result.
OkJourney(legs, duration, cost) ==
    [ok |-> TRUE, legs |-> legs, duration |-> duration, cost |-> cost]

ErrJourney(err) == [ok |-> FALSE, err |-> err]

\* What mc_raptor_query may answer for one destination: either error, a
\* journey without legs, journeys of one and two legs that share segments of
\* trips T0 and T1, and two journeys whose leg is malformed (boarded =
\* arrival, boarded > arrival).  Every stop order lies inside its trip.
MlspAnswers ==
    {ErrJourney("NoJourneyFound"),
     ErrJourney("InfiniteLoop"),
     OkJourney(<<>>, 0, ZeroCost),
     OkJourney(<<Leg(0, 0, 0, 2)>>, 120, <<1, 2>>),
     OkJourney(<<Leg(0, 0, 1, 2), Leg(0, 1, 0, 2)>>, 170, <<3, 2>>),
     OkJourney(<<Leg(0, 1, 1, 2), Leg(1, 0, 0, 1)>>, 310, <<2, 1>>),
     OkJourney(<<Leg(0, 0, 1, 1)>>, 0, ZeroCost),
     OkJourney(<<Leg(0, 1, 2, 0)>>, 0, ZeroCost)}

\* ----------------------------------------------------------------- inputs

\* How many times 2^31 an Agent_Count of the files lies from 0, at most.
MaxHigh == 3

\* The most rounds the host asks for.
MaxHostRounds == 2

\* SimulationStep; dest_stops and counts are parallel vectors.
SimulationStep(departure_time, origin_stop, dest_stops, counts) ==
    [departure_time |-> departure_time, origin_stop |-> origin_stop,
     dest_stops |-> dest_stops, counts |-> counts]

\* The exact sum of a vector of counts.
RECURSIVE SumCounts(_)
SumCounts(s) ==
    IF s = <<>> THEN U32(0, 0) ELSE CountAdd(Head(s), SumCounts(Tail(s)))

\* SimulationStep::len
StepLen(step) == Len(step.dest_stops)

\* SimulationStep::count, the u32 sum of the counts: the value the release
\* build computes (wrapped), and whether the sum overflowed (the debug build
\* panics on it).
StepCount(step) ==
    LET sum == SumCounts(step.counts) IN
    [value |-> U32(sum.hi % 2, sum.lo), overflow |-> sum.hi >= 2]

\* The counts of the demands: 0 .. MaxCount, and u32::MAX (what a row with
\* Agent_Count -1 is imported as).
AgentCounts == {U32(0, c) : c \in 0 .. MaxCount} \cup {U32Max}

\* The demands a run is given: a step of two destinations and a step of one.
Demands ==
    {(0 :> SimulationStep(0, 0, <<2, 3>>, <<c0, c1>>)) @@
     (1 :> SimulationStep(50, 1, <<2>>, <<c2>>)) :
        c0 \in AgentCounts, c1 \in AgentCounts, c2 \in AgentCounts}

\* The demands of the runs of several rounds: in the first, step 1 has no
\* demand; in the second, step 0 has none.
RunDemands ==
    {(0 :> SimulationStep(0, 0, <<2, 3>>, <<U32(0, 2), U32(0, 1)>>)) @@
     (1 :> SimulationStep(50, 1, <<2>>, <<U32(0, 0)>>)),
     (0 :> SimulationStep(0, 0, <<2, 3>>, <<U32(0, 0), U32(0, 0)>>)) @@
     (1 :> SimulationStep(50, 1, <<2>>, <<U32(0, 1)>>))}

\* What the MLSP answers in the runs of several rounds.
RunAnswers ==
    {ErrJourney("InfiniteLoop"),
     OkJourney(<<>>, 0, ZeroCost),
     OkJourney(<<Leg(0, 0, 0, 2)>>, 120, <<1, 2>>),
     OkJourney(<<Leg(0, 1, 2, 0)>>, 0, ZeroCost)}

\* The bag sizes a run is configured with (a usize, unvalidated).
BagSizes == {0, 3, 7}

\* ------------------------------------------------------------------ state

VARIABLES
    steps,              \* simulation_steps, the demand of the run
    num_rounds,         \* params.get_num_rounds()
    bag_size,           \* params.get_bag_size()
    pc,                 \* where run_simulation is
    panic,              \* the panic that ended the run, or "none"
    simulation_rounds,  \* the SimulationRoundResult of every round so far
    round_number,       \* the round in progress
    crowding_cost,      \* the crowding-cost array of the round in progress
    round_bag_size,     \* the bag size of the round in progress
    trip_stops_pop,     \* the atomic counters of the round in progress
    task,               \* per step: the worker-local state of its closure
    mlsp_calls,         \* per step: the queries issued, with their answers
    progress,           \* how often run_progress_callback has been called
    progress_callback,  \* whether the parameters hold a progress callback
    events,             \* what the callback has sent to the host's channel
    finish_order,       \* the steps of the round in the order they finished
    debug_assertions,   \* whether the build checks debug_assert!
    result,             \* what run_simulation returned
    capacities,         \* a TripCapacities registry
    registry_calls,     \* the constructor and setter calls made on it
    file,               \* the demand file the importer is given
    batch_idx,          \* how many record batches the importer has taken
    row_idx,            \* the next row of the batch being imported
    station_name_map,   \* the importer's cache of resolved station names
    simulation_steps,   \* the importer's map of steps by (time, origin)
    lookups,            \* the names the importer asked the network for
    warnings,           \* the names the importer logged a warning for
    import_result,      \* what the demand importer returned
    csv,                \* the capacity file import_trip_capacities is given
    capacity_result,    \* what import_trip_capacities returned
    probe,              \* an evaluation of a crowding function
    narrowing,          \* a row's count on its way to the counters
    app_data,           \* the host's AppStateData
    lock,               \* the mutex that guards it
    reply               \* the host command answered last, and its answer

\* The state of a simulation run; of the registry; of the two importers; of
\* the evaluation of a crowding function.
sim_vars ==
    <<steps, num_rounds, bag_size, pc, panic, simulation_rounds, round_number,
      crowding_cost, round_bag_size, trip_stops_pop, task, mlsp_calls,
      progress, progress_callback, events, finish_order, result>>

registry_vars == <<capacities, registry_calls>>

import_vars ==
    <<file, batch_idx, row_idx, station_name_map, simulation_steps, lookups,
      warnings, import_result>>

capacity_import_vars == <<csv, capacity_result>>

host_vars == <<app_data, lock, reply>>

aux_vars ==
    <<registry_vars, import_vars, capacity_import_vars, probe, narrowing,
      host_vars>>

vars == <<sim_vars, debug_assertions, aux_vars>>

StepIdx == DOMAIN steps

None == [none |-> TRUE]

ZeroPop == [k \in StopTimeIdx |-> 0]

IdleTask ==
    [pc |-> "pending", journeys |-> <<>>, journey_idx |-> 0, leg |-> 1,
     phase |-> "add", out |-> <<>>]

\* No registry, importer or evaluation is in use.
RegistryIdle == capacities = None /\ registry_calls = <<>>

ImportIdle ==
    /\ file = None
    /\ batch_idx = 0
    /\ row_idx = 0
    /\ station_name_map = <<>>
    /\ simulation_steps = <<>>
    /\ lookups = <<>>
    /\ warnings = <<>>
    /\ import_result = None

CapacityImportIdle == csv = None /\ capacity_result = None

ProbeIdle == probe = None

NarrowingIdle == narrowing = None

\* No host holds the library.
HostIdle == app_data = None /\ lock = "free" /\ reply = None

\* No simulation is running.
SimIdle ==
    /\ steps = <<>>
    /\ num_rounds = 0
    /\ bag_size = 0
    /\ pc = "idle"
    /\ panic = "none"
    /\ simulation_rounds = <<>>
    /\ round_number = 0
    /\ crowding_cost = <<>>
    /\ round_bag_size = 0
    /\ trip_stops_pop = ZeroPop
    /\ task = <<>>
    /\ mlsp_calls = <<>>
    /\ progress = 0
    /\ progress_callback = "None"
    /\ events = <<>>
    /\ finish_order = <<>>
    /\ result = None

\* The state when run_simulation is entered, for a demand, a number of
\* rounds and a bag size drawn from the given sets.
InitWith(demands, rounds, bags) ==
    /\ steps \in demands
    /\ num_rounds \in rounds
    /\ bag_size \in bags
    /\ pc = "start"
    /\ panic = "none"
    /\ simulation_rounds = <<>>
    /\ round_number = 0
    /\ crowding_cost = <<>>
    /\ round_bag_size = 0
    /\ trip_stops_pop = ZeroPop
    /\ task = [s \in DOMAIN steps |-> IdleTask]
    /\ mlsp_calls = [s \in DOMAIN steps |-> <<>>]
    /\ progress = 0
    /\ progress_callback = "None"
    /\ events = <<>>
    /\ finish_order = <<>>
    /\ debug_assertions \in BOOLEAN
    /\ result = None
    /\ RegistryIdle /\ ImportIdle /\ CapacityImportIdle /\ ProbeIdle
    /\ NarrowingIdle /\ HostIdle

\* A run of up to MaxRounds rounds.
Init == InitWith(RunDemands, 0 .. MaxRounds, BagSizes)

\* A run of one round, over every demand and every answer of the MLSP.
RoundInit == InitWith(Demands, {1}, {5})

\* ------------------------------------------------------- the parallel phase

Min(a, b) == IF a < b THEN a ELSE b

Clamp(x, lo, hi) == IF x < lo THEN lo ELSE IF x > hi THEN hi ELSE x

\* Mutant: the configured bag size is used as it is.
RoundBagSizeUnclamped(round, configured) ==
    IF round = 0 THEN 1 ELSE configured

\* Mutant: the first round is not told apart.
RoundBagSizeClamped(round, configured) == Clamp(configured, 2, 5)

\* The bag size of a round: 1 for the first, the configured one clamped after.
RoundBagSize(round, configured) ==
    IF round = 0 THEN 1 ELSE Clamp(configured, 2, 5)

\* Mutant: the first round's array in place of the last round's.
RoundCrowdingCostFirst(rounds) ==
    IF rounds = <<>> THEN [k \in StopTimeIdx |-> ZeroCost]
    ELSE rounds[1].crowding_cost

\* simulation_rounds.last().map(|r| r.crowding_cost), and the zero array
\* run_simulation_round puts in place of None.
RoundCrowdingCost(rounds) ==
    IF rounds = <<>> THEN [k \in StopTimeIdx |-> ZeroCost]
    ELSE rounds[Len(rounds)].crowding_cost

\* PopulationCountAtomic::fetch_add and fetch_sub: one indivisible
\* read-modify-write of a counter, wrapping in i32.
\* Mutant: a plain store in place of the read-modify-write.
fetch_add_stores(buf, idx, val) == [buf EXCEPT ![idx] = val]

fetch_add(buf, idx, val) == [buf EXCEPT ![idx] = WrappingAdd(@, val)]

\* Mutant: the count alighting is forgotten when it is the whole train's.
fetch_sub_unless_equal(buf, idx, val) ==
    [buf EXCEPT ![idx] = IF @ = val THEN @ ELSE WrappingSub(@, val)]

fetch_sub(buf, idx, val) == [buf EXCEPT ![idx] = WrappingSub(@, val)]

AgentJourneyResult(sim_step_idx, journey_idx, res) ==
    [sim_step_idx |-> sim_step_idx, journey_idx |-> journey_idx, result |-> res]

\* Mutant: both trips are taken from the first leg, and the transfers are
\* the legs.
AgentJourneyOfFirstLeg(sim_step, journey, count, dest_stop) ==
    [ok |-> TRUE,
     origin_stop |-> sim_step.origin_stop,
     origin_trip |-> journey.legs[1].trip,
     dest_stop |-> dest_stop,
     dest_trip |-> journey.legs[1].trip,
     count |-> count,
     start_time |-> sim_step.departure_time,
     duration |-> journey.duration,
     crowding_cost |-> journey.cost,
     num_transfers |-> Len(journey.legs) % 256,
     legs |-> journey.legs]

\* The Ok form of a result, shaped from the step and the journey returned.
AgentJourney(sim_step, journey, count, dest_stop) ==
    [ok |-> TRUE,
     origin_stop |-> sim_step.origin_stop,
     origin_trip |-> journey.legs[1].trip,
     dest_stop |-> dest_stop,
     dest_trip |-> journey.legs[Len(journey.legs)].trip,
     count |-> count,
     start_time |-> sim_step.departure_time,
     duration |-> journey.duration,
     crowding_cost |-> journey.cost,
     num_transfers |-> (Len(journey.legs) - 1) % 256,
     legs |-> journey.legs]

\* Mutant: the izip ends one item early.
IzipLenOffByOne(s) ==
    Min(Len(task[s].journeys),
        Min(Len(steps[s].counts), Len(steps[s].dest_stops))) - 1

\* How many items the izip of (0..journeys.len(), journeys, counts,
\* dest_stops) yields: it ends with its shortest part.
IzipLen(s) ==
    Min(Len(task[s].journeys),
        Min(Len(steps[s].counts), Len(steps[s].dest_stops)))

\* Mutant: an error is dropped rather than recorded.
EmitOkOnly(s, res) ==
    LET t == task[s]
        out == IF res.ok
               THEN Append(t.out, AgentJourneyResult(s, t.journey_idx, res))
               ELSE t.out
        next == t.journey_idx + 1
    IN [t EXCEPT !.out = out, !.journey_idx = next, !.leg = 1, !.phase = "add",
                 !.pc = IF next >= IzipLen(s) THEN "done" ELSE "running"]

\* The task after emitting `res` for the journey it is at.
Emit(s, res) ==
    LET t == task[s]
        out == Append(t.out, AgentJourneyResult(s, t.journey_idx, res))
        next == t.journey_idx + 1
    IN [t EXCEPT !.out = out, !.journey_idx = next, !.leg = 1, !.phase = "add",
                 !.pc = IF next >= IzipLen(s) THEN "done" ELSE "running"]

\* The journey a running task is at (journeys are numbered from 0).
CurrentJourney(s) == task[s].journeys[task[s].journey_idx + 1]

\* The step joins finish_order when this transition finishes it.
NoteFinished(s) ==
    finish_order' = IF task'[s].pc = "done" THEN Append(finish_order, s)
                    ELSE finish_order

RoundFrame ==
    UNCHANGED <<steps, num_rounds, bag_size, pc, panic, simulation_rounds,
                round_number, crowding_cost, round_bag_size,
                progress_callback, debug_assertions, result, aux_vars>>

\* run_simulation's loop calls run_simulation_round, which allocates the
\* counters, fixes the crowding-cost array and the bag size, and enters the
\* parallel region.
StartRound ==
    /\ pc = "start"
    /\ Len(simulation_rounds) < num_rounds
    /\ round_number' = Len(simulation_rounds)
    /\ crowding_cost' = RoundCrowdingCost(simulation_rounds)
    /\ round_bag_size' = RoundBagSize(Len(simulation_rounds), bag_size)
    /\ trip_stops_pop' = ZeroPop
    /\ task' = [s \in StepIdx |-> IdleTask]
    /\ finish_order' = <<>>
    /\ pc' = "round"
    /\ UNCHANGED <<steps, num_rounds, bag_size, panic, simulation_rounds,
                   mlsp_calls, progress, progress_callback, events,
                   debug_assertions, result, aux_vars>>

\* Mutant: the range of the map starts at 1.
NoJourneyResultsFromOne(s, n) ==
    [j \in 1 .. n - 1 |-> AgentJourneyResult(s, j, ErrJourney("NoJourneyFound"))]

\* (0..n).map(|journey_idx| ... NoJourneyFound), for step s
NoJourneyResults(s, n) ==
    [j \in 1 .. n |-> AgentJourneyResult(s, j - 1, ErrJourney("NoJourneyFound"))]

\* Whether sim_step.count() panics: the sum overflows in a debug build.
CountPanics(step, debug) == debug /\ StepCount(step).overflow

\* Mutant: the callback is skipped for a step without demand.
run_progress_callback_if_demand(s) ==
    /\ progress' = progress + 1
    /\ events' = IF progress_callback = "Some"
                    /\ StepCount(steps[s]).value # U32(0, 0)
                 THEN Append(events, [type |-> "StepCompleted"])
                 ELSE events

\* SimulationParams::run_progress_callback, called for step s: the callback
\* is called if the parameters hold one; the host's sends StepCompleted to
\* its channel.
run_progress_callback(s) ==
    /\ progress' = progress + 1
    /\ events' = IF progress_callback = "Some"
                 THEN Append(events, [type |-> "StepCompleted"])
                 ELSE events

\* A worker takes a step whose counts sum to 0: after the progress callback it
\* yields one NoJourneyFound per destination, without a query.
StepZeroCount(s) ==
    /\ pc = "round"
    /\ task[s].pc = "pending"
    /\ ~CountPanics(steps[s], debug_assertions)
    /\ StepCount(steps[s]).value = U32(0, 0)
    /\ run_progress_callback(s)
    /\ task' = [task EXCEPT ![s] =
            [@ EXCEPT !.pc = "done",
                      !.out = NoJourneyResults(s, Len(steps[s].dest_stops))]]
    /\ finish_order' = Append(finish_order, s)
    /\ UNCHANGED <<trip_stops_pop, mlsp_calls>>
    /\ RoundFrame

\* A worker takes a step with demand: after the progress callback it queries
\* the MLSP once, for all the step's destinations, with the round's bag size
\* and crowding-cost array.  The run panics when the sum of the counts
\* overflows in a debug build, and in the unreachable!() arm of the dispatch
\* (a bag size outside 1..5).
StepQuery(s, answers) ==
    /\ pc = "round"
    /\ task[s].pc = "pending"
    /\ CountPanics(steps[s], debug_assertions)
            \/ StepCount(steps[s]).value # U32(0, 0)
    /\ run_progress_callback(s)
    /\ IF ~CountPanics(steps[s], debug_assertions) /\ round_bag_size \in 1 .. 5
       THEN \E journeys \in [1 .. Len(steps[s].dest_stops) -> answers] :
              /\ mlsp_calls' = [mlsp_calls EXCEPT ![s] = Append(@,
                    [round |-> round_number,
                     origin |-> steps[s].origin_stop,
                     departure_time |-> steps[s].departure_time,
                     destinations |-> steps[s].dest_stops,
                     crowding_cost |-> crowding_cost,
                     bag_size |-> round_bag_size,
                     journeys |-> journeys])]
              /\ task' = [task EXCEPT ![s] =
                    [@ EXCEPT !.pc = "running", !.journeys = journeys]]
              /\ UNCHANGED <<pc, panic>>
       ELSE /\ pc' = "panicked"
            /\ panic' = IF CountPanics(steps[s], debug_assertions)
                        THEN "attempt to add with overflow"
                        ELSE "unreachable"
            /\ UNCHANGED <<mlsp_calls, task>>
    /\ UNCHANGED <<steps, num_rounds, bag_size, simulation_rounds,
                   round_number, crowding_cost, round_bag_size,
                   trip_stops_pop, finish_order, progress_callback,
                   debug_assertions, result, aux_vars>>

\* Mutant: every error is recorded as NoJourneyFound.
JourneyErrAsNoJourneyFound(s) ==
    /\ pc = "round"
    /\ task[s].pc = "running"
    /\ ~CurrentJourney(s).ok
    /\ task' = [task EXCEPT ![s] = Emit(s, ErrJourney("NoJourneyFound"))]
    /\ NoteFinished(s)
    /\ UNCHANGED <<trip_stops_pop, mlsp_calls, progress, events>>
    /\ RoundFrame

\* The journey the task is at is an error: it is recorded as it is.
JourneyErr(s) ==
    /\ pc = "round"
    /\ task[s].pc = "running"
    /\ ~CurrentJourney(s).ok
    /\ task' = [task EXCEPT ![s] = Emit(s, ErrJourney(CurrentJourney(s).err))]
    /\ NoteFinished(s)
    /\ UNCHANGED <<trip_stops_pop, mlsp_calls, progress, events>>
    /\ RoundFrame

\* The journey the task is at has no legs: it is recorded as NoJourneyFound.
JourneyEmpty(s) ==
    /\ pc = "round"
    /\ task[s].pc = "running"
    /\ CurrentJourney(s).ok
    /\ CurrentJourney(s).legs = <<>>
    /\ task' = [task EXCEPT ![s] = Emit(s, ErrJourney("NoJourneyFound"))]
    /\ NoteFinished(s)
    /\ UNCHANGED <<trip_stops_pop, mlsp_calls, progress, events>>
    /\ RoundFrame

\* Where a leg's stop order lies in the flat array.
LegIndex(leg, stop_order) ==
    get_trip_range(leg.trip.route_idx, leg.trip.trip_order).start + stop_order

\* The count of the journey the task is at, as added to the counters.
CurrentCount(s) == AsPopulationCount(steps[s].counts[task[s].journey_idx + 1])

\* The first atomic update of a leg: the count is added where it boards.
LegBoard(s) ==
    /\ pc = "round"
    /\ task[s].pc = "running"
    /\ CurrentJourney(s).ok
    /\ CurrentJourney(s).legs # <<>>
    /\ task[s].phase = "add"
    /\ LET leg == CurrentJourney(s).legs[task[s].leg] IN
         trip_stops_pop' = fetch_add(trip_stops_pop,
                                     LegIndex(leg, leg.boarded_stop_order),
                                     CurrentCount(s))
    /\ task' = [task EXCEPT ![s].phase = "sub"]
    /\ UNCHANGED <<mlsp_calls, progress, events, finish_order>>
    /\ RoundFrame

\* The second atomic update of a leg: the count is subtracted where it
\* alights; after the last leg the resolved journey is recorded.
LegAlight(s) ==
    /\ pc = "round"
    /\ task[s].pc = "running"
    /\ task[s].phase = "sub"
    /\ LET journey == CurrentJourney(s)
           leg == journey.legs[task[s].leg]
       IN /\ trip_stops_pop' = fetch_sub(trip_stops_pop,
                                         LegIndex(leg, leg.arrival_stop_order),
                                         CurrentCount(s))
          /\ task' = [task EXCEPT ![s] =
                IF task[s].leg < Len(journey.legs)
                THEN [@ EXCEPT !.leg = @ + 1, !.phase = "add"]
                ELSE Emit(s, AgentJourney(steps[s], journey,
                                          steps[s].counts[task[s].journey_idx + 1],
                                          steps[s].dest_stops[task[s].journey_idx + 1]))]
    /\ NoteFinished(s)
    /\ UNCHANGED <<mlsp_calls, progress, events>>
    /\ RoundFrame

\* ------------------------------------------------------------ finalization

\* Mutant: the results are collected in the order the steps finished.
RECURSIVE AsFinished(_, _)
AsFinished(outs, order) ==
    IF order = <<>> THEN <<>>
    ELSE outs[Head(order)] \o AsFinished(outs, Tail(order))

ParExtendAsFinished(outs, s) == AsFinished(outs, finish_order)

\* agent_journeys.par_extend(...): the results of the steps, concatenated in
\* step order whatever order the workers finished in.
RECURSIVE ParExtend(_, _)
ParExtend(outs, s) ==
    IF s \notin DOMAIN outs THEN <<>> ELSE outs[s] \o ParExtend(outs, s + 1)

\* Mutant: a plain subtraction.
ConnectionTimeSigned(departure_time, arrival_time) ==
    departure_time - arrival_time

\* Timestamp::checked_sub(...).unwrap_or_else(|| 0)
ConnectionTime(departure_time, arrival_time) ==
    IF departure_time >= arrival_time THEN departure_time - arrival_time ELSE 0

\* Whether cost_fn accepts the count: its debug_assert!(count >= 0).
CostFnAccepts(debug, count) == debug => count >= 0

\* The loop over one trip's range from position i on: the prefix sum (which
\* wraps in a release build and panics on overflow in a debug build), the
\* cost of each segment and the assertion on the entry just completed.  acc
\* holds the two arrays and the first panic, if any.
RECURSIVE PrefixSumFrom(_, _, _, _, _)
PrefixSumFrom(acc, range, trip_id, debug, i) ==
    IF i >= range.len - 1 THEN acc
    ELSE
      LET a == range.start
          sum == WrappingAdd(acc.pop[a + i + 1], acc.pop[a + i])
          overflow == debug /\ AddOverflows(acc.pop[a + i + 1], acc.pop[a + i])
          pop == [acc.pop EXCEPT ![a + i + 1] = sum]
          cost_per_unit_time == cost_fn(trip_id, sum)
          connection_time ==
              ConnectionTime(stop_times[a + i + 1].departure_time,
                             stop_times[a + i].arrival_time)
          cost == [acc.cost EXCEPT ![a + i + 1] =
                      RatTimes(cost_per_unit_time, connection_time)]
          failed ==
              IF acc.panic # "none" THEN acc.panic
              ELSE IF overflow THEN "attempt to add with overflow"
              ELSE IF ~CostFnAccepts(debug, sum) THEN "Negative population count"
              ELSE IF pop[a + i] < 0 THEN "assertion failed: trip[i] >= 0"
              ELSE "none"
      IN PrefixSumFrom([pop |-> pop, cost |-> cost, panic |-> failed],
                       range, trip_id, debug, i + 1)

\* The body of the loop for one trip.
FinalizeTrip(acc, route_idx, trip, debug) ==
    LET range == get_trip_range(route_idx, trip)
        trip_id == routes[route_idx].trip_ids[trip]
        first == [acc EXCEPT
                    !.cost[range.start] = cost_fn(trip_id, acc.pop[range.start]),
                    !.panic = IF acc.panic = "none" /\
                                 ~CostFnAccepts(debug, acc.pop[range.start])
                              THEN "Negative population count" ELSE acc.panic]
    IN PrefixSumFrom(first, range, trip_id, debug, 0)

\* The loops over the routes and over each route's trips.
RECURSIVE FinalizeFrom(_, _, _, _)
FinalizeFrom(acc, route_idx, trip, debug) ==
    IF route_idx \notin RouteIdx THEN acc
    ELSE IF trip >= routes[route_idx].num_trips
         THEN FinalizeFrom(acc, route_idx + 1, 0, debug)
         ELSE FinalizeFrom(FinalizeTrip(acc, route_idx, trip, debug),
                           route_idx, trip + 1, debug)

\* The snapshot of the counters, prefix-summed and costed.
Finalize(snapshot, debug) ==
    FinalizeFrom([pop |-> snapshot,
                  cost |-> [k \in StopTimeIdx |-> ZeroCost],
                  panic |-> "none"], 0, 0, debug)

\* Mutant: the region is left when its first step has finished.
ParallelRegionEndedEarly == \E s \in StepIdx : task[s].pc = "done"

\* par_extend returns when the closure of every step has returned and its
\* results are consumed.
ParallelRegionEnded == \A s \in StepIdx : task[s].pc = "done"

\* The parallel region has ended: the results are collected, the counters
\* snapshot and summed; a failed assertion ends the run, otherwise the
\* round's result joins simulation_rounds.
FinalizeRound ==
    /\ pc = "round"
    /\ ParallelRegionEnded
    /\ LET fin == Finalize(trip_stops_pop, debug_assertions)
           agent_journeys == ParExtend([s \in StepIdx |-> task[s].out], 0)
       IN IF fin.panic = "none"
          THEN /\ simulation_rounds' = Append(simulation_rounds,
                      [population_count |-> fin.pop,
                       crowding_cost |-> fin.cost,
                       agent_journeys |-> agent_journeys])
               /\ pc' = "start"
               /\ UNCHANGED panic
          ELSE /\ pc' = "panicked"
               /\ panic' = fin.panic
               /\ UNCHANGED simulation_rounds
    /\ UNCHANGED <<steps, num_rounds, bag_size, round_number, crowding_cost,
                   round_bag_size, trip_stops_pop, task, mlsp_calls, progress,
                   progress_callback, events,
                   finish_order, debug_assertions, result, aux_vars>>

\* Mutant: the first round's population count.
FinalPopulationCountFirst(rounds) == rounds[1].population_count

\* The population count run_simulation returns: the last round's.
FinalPopulationCount(rounds) == rounds[Len(rounds)].population_count

\* Mutant: a run without rounds returns an empty result.
FinishOrDefault ==
    /\ pc = "start"
    /\ Len(simulation_rounds) = num_rounds
    /\ pc' = "returned"
    /\ result' =
         [population_count |->
              IF simulation_rounds = <<>> THEN ZeroPop
              ELSE FinalPopulationCount(simulation_rounds),
          round_agent_journeys |->
              [k \in 1 .. Len(simulation_rounds) |->
                  simulation_rounds[k].agent_journeys]]
    /\ UNCHANGED <<steps, num_rounds, bag_size, panic, simulation_rounds,
                   round_number, crowding_cost, round_bag_size, trip_stops_pop,
                   task, mlsp_calls, progress, progress_callback, events,
                   finish_order, debug_assertions,
                   aux_vars>>

\* The rounds are over: run_simulation unwraps the last round and returns
\* its population count with every round's agent journeys.
Finish ==
    /\ pc = "start"
    /\ Len(simulation_rounds) = num_rounds
    /\ IF simulation_rounds = <<>>
       THEN /\ pc' = "panicked"
            /\ panic' = "called Option::unwrap() on a None value"
            /\ UNCHANGED result
       ELSE /\ pc' = "returned"
            /\ UNCHANGED panic
            /\ result' =
                 [population_count |-> FinalPopulationCount(simulation_rounds),
                  round_agent_journeys |->
                      [k \in 1 .. Len(simulation_rounds) |->
                          simulation_rounds[k].agent_journeys]]
    /\ UNCHANGED <<steps, num_rounds, bag_size, simulation_rounds,
                   round_number, crowding_cost, round_bag_size, trip_stops_pop,
                   task, mlsp_calls, progress, progress_callback, events,
                   finish_order, debug_assertions,
                   aux_vars>>

Next ==
    \/ StartRound
    \/ \E s \in StepIdx : StepZeroCount(s)
    \/ \E s \in StepIdx : StepQuery(s, RunAnswers)
    \/ \E s \in StepIdx : JourneyErr(s)
    \/ \E s \in StepIdx : JourneyEmpty(s)
    \/ \E s \in StepIdx : LegBoard(s)
    \/ \E s \in StepIdx : LegAlight(s)
    \/ FinalizeRound
    \/ Finish

Spec == Init /\ [][Next]_vars

RoundNext ==
    \/ StartRound
    \/ \E s \in StepIdx : StepZeroCount(s)
    \/ \E s \in StepIdx : StepQuery(s, MlspAnswers)
    \/ \E s \in StepIdx : JourneyErr(s)
    \/ \E s \in StepIdx : JourneyEmpty(s)
    \/ \E s \in StepIdx : LegBoard(s)
    \/ \E s \in StepIdx : LegAlight(s)
    \/ FinalizeRound
    \/ Finish

RoundSpec == RoundInit /\ [][RoundNext]_vars

\* ------------------------------------------- evaluating a crowding function

\* The capacities and occupancies a crowding function is evaluated at: small
\* ones, and occupancies around 46340 (the largest whose square fits an i32),
\* at 65535 and at the largest x with x + 1 an i32.
ProbeCapacities ==
    {[seated |-> 1, standing |-> 1], [seated |-> 2, standing |-> 2],
     [seated |-> 1, standing |-> 0], [seated |-> 0, standing |-> 3]}

ProbeCounts == (0 .. MaxCount) \cup {46339, 46340, 65535, I32Max - 1}

ProbeInit ==
    /\ SimIdle /\ RegistryIdle /\ ImportIdle /\ CapacityImportIdle
    /\ NarrowingIdle /\ HostIdle
    /\ debug_assertions \in BOOLEAN
    /\ probe \in [func : {"Linear", "Quadratic"}, cap : ProbeCapacities,
                  x : ProbeCounts, evaluated : {FALSE}]

\* What one call of crowding_cost yields: a cost, or a panic.
Evaluation(func, cap, count, debug) ==
    IF CrowdingFuncPanics(func, cap, count, debug)
    THEN [panicked |-> TRUE]
    ELSE [panicked |-> FALSE, cost |-> CrowdingFuncCost(func, cap, count)]

\* crowding_cost is called for x and for x + 1 passengers.
Evaluate ==
    /\ probe # None
    /\ ~probe.evaluated
    /\ probe' = [func |-> probe.func, cap |-> probe.cap, x |-> probe.x,
                 evaluated |-> TRUE,
                 at_x |-> Evaluation(probe.func, probe.cap, probe.x,
                                     debug_assertions),
                 at_next |-> Evaluation(probe.func, probe.cap, probe.x + 1,
                                        debug_assertions)]
    /\ UNCHANGED <<sim_vars, debug_assertions, registry_vars, import_vars,
                   capacity_import_vars, narrowing, host_vars>>

ProbeNext == Evaluate

ProbeSpec == ProbeInit /\ [][ProbeNext]_vars

\* ------------------------------------------------ the capacity registry

TripIds == {"T0", "T1", "U0"}

EmptyOverrides == [id \in {} |-> DefaultCapacity]

\* The override maps a registry is constructed with.
RegistryOverrides ==
    {EmptyOverrides,
     "T0" :> [seated |-> 2, standing |-> 2],
     ("T0" :> [seated |-> 1, standing |-> 0]) @@
     ("U0" :> [seated |-> 3, standing |-> 1])}

RegistryInit ==
    /\ SimIdle /\ RegistryIdle /\ ImportIdle /\ CapacityImportIdle /\ ProbeIdle
    /\ NarrowingIdle /\ HostIdle
    /\ debug_assertions \in BOOLEAN

RegistryFrame ==
    UNCHANGED <<sim_vars, debug_assertions, import_vars, capacity_import_vars,
                probe, narrowing, host_vars>>

\* TripCapacities::default(), derived: the default capacity, no override.
RegistryDefault ==
    /\ Len(registry_calls) < MaxCalls
    /\ capacities' = [default |-> DefaultCapacity, overrides |-> EmptyOverrides]
    /\ registry_calls' = Append(registry_calls, [op |-> "default"])
    /\ RegistryFrame

\* TripCapacities::new(default, overrides)
RegistryNew(default, overrides) ==
    /\ Len(registry_calls) < MaxCalls
    /\ capacities' = [default |-> default, overrides |-> overrides]
    /\ registry_calls' = Append(registry_calls,
            [op |-> "new", default |-> default, overrides |-> overrides])
    /\ RegistryFrame

\* TripCapacities::set_default_capacity(default)
RegistrySetDefault(default) ==
    /\ capacities # None
    /\ Len(registry_calls) < MaxCalls
    /\ capacities' = [capacities EXCEPT !.default = default]
    /\ registry_calls' = Append(registry_calls,
            [op |-> "set_default_capacity", default |-> default])
    /\ RegistryFrame

RegistryNext ==
    \/ RegistryDefault
    \/ \E default \in ProbeCapacities : \E overrides \in RegistryOverrides :
          RegistryNew(default, overrides)
    \/ \E default \in ProbeCapacities : RegistrySetDefault(default)

RegistrySpec == RegistryInit /\ [][RegistryNext]_vars

\* ------------------------------------------------------ the demand importer

\* The nanoseconds of a second.
NanosPerSecond == 1000000000

\* The stations the network resolves, with their stop indices; every other
\* name is unknown to it.
stations == ("A" :> 0) @@ ("B" :> 1) @@ ("C" :> 2)

network_date == "2024-05-01"

NoStop == [some |-> FALSE]

SomeStop(idx) == [some |-> TRUE, idx |-> idx]

\* network.get_stop_idx_from_name
NetworkStopIdx(name) ==
    IF name \in DOMAIN stations THEN SomeStop(stations[name]) ELSE NoStop

\* A row of the demand file: two station names, a time of day in the unit
\* of the column, and a signed 64-bit count.
Row(origin, destination, departure_time, agent_count) ==
    [Origin_Station |-> origin, Destination_Station |-> destination,
     Departure_Time |-> departure_time, Agent_Count |-> agent_count]

\* The rows of the files: two with the same key and destination, rows that
\* differ in the second or in the origin, a negative count, and rows with an
\* unknown origin or destination.
Rows ==
    {Row("A", "B", 0, 1),
     Row("A", "B", 500000000, 2),
     Row("A", "C", 1999999999, 1),
     Row("B", "A", 0, -1),
     Row("X", "B", 0, 1),
     Row("A", "X", 1000000000, 1),
     Row("B", "Y", 0, 1)}

\* The files: a precision of the Departure_Time column, up to MaxRows rows,
\* and the number of rows of a record batch.
Files ==
    [precision : {"Time64Nanosecond", "Time64Microsecond"},
     batch_size : {1, 2},
     rows : UNION {[1 .. n -> Rows] : n \in 0 .. MaxRows}]

\* How many record batches the reader yields, and the last row of batch b.
NumBatches(f) == (Len(f.rows) + f.batch_size - 1) \div f.batch_size

BatchEnd(f, b) == Min(b * f.batch_size, Len(f.rows))

\* Mutant: the column is read as microseconds.
NsToTimestampFromMicros(ns) == ns \div 1000000

\* (departure_times_ns.value(i) / 1_000_000_000) as Timestamp
NsToTimestamp(ns) == ns \div NanosPerSecond

\* num_agents[i] as AgentCount: the i64 is truncated to 32 bits.
AsAgentCount(n) == I64AsU32(I64Of(n))

\* Mutant: every key is taken by its time alone.
StepKeyTimeOnly(departure_time, origin_stop) == <<departure_time, 0>>

\* The key of the map of steps.
StepKey(departure_time, origin_stop) == <<departure_time, origin_stop>>

EmptyMap == [n \in {} |-> NoStop]

\* Mutant: only the names the network resolves are cached.
CacheInsertFound(map, name, stop) ==
    IF stop.some THEN (name :> stop) @@ map ELSE map

\* station_name_map.insert(name, stop_idx)
CacheInsert(map, name, stop) == (name :> stop) @@ map

\* The closure get_stop_idx_from_name applied to the cache c (the map, the
\* lookups and the warnings so far): the stop, and the cache after.
GetStopIdx(c, name) ==
    IF name \in DOMAIN c.map
    THEN [c EXCEPT !.stop = c.map[name]]
    ELSE LET stop == NetworkStopIdx(name) IN
         [map |-> CacheInsert(c.map, name, stop),
          lookups |-> Append(c.lookups, name),
          warnings |-> IF stop.some THEN c.warnings
                       ELSE Append(c.warnings, name),
          stop |-> stop]

\* SimulationStep::push on the step of `key`, created when absent.
PushEntry(map, key, dest_stop, count) ==
    LET step == IF key \in DOMAIN map THEN map[key]
                ELSE SimulationStep(key[1], key[2], <<>>, <<>>)
        pushed == [step EXCEPT !.dest_stops = Append(@, dest_stop),
                               !.counts = Append(@, count)]
    IN (key :> pushed) @@ map

EmptySteps == [k \in {} |-> SimulationStep(0, 0, <<>>, <<>>)]

ImportInit ==
    /\ SimIdle /\ RegistryIdle /\ CapacityImportIdle /\ ProbeIdle
    /\ NarrowingIdle /\ HostIdle
    /\ debug_assertions = FALSE
    /\ file \in Files
    /\ batch_idx = 0
    /\ row_idx = 0
    /\ station_name_map = EmptyMap
    /\ simulation_steps = EmptySteps
    /\ lookups = <<>>
    /\ warnings = <<>>
    /\ import_result = None

ImportFrame ==
    UNCHANGED <<sim_vars, debug_assertions, registry_vars,
                capacity_import_vars, probe, narrowing, host_vars, file>>

\* The reader yields the next record batch and its columns are taken: a
\* Departure_Time column that is not in nanoseconds ends the import with
\* ColumnWrongFormat.
ImportBatch ==
    /\ file # None
    /\ import_result = None
    /\ row_idx = 0
    /\ batch_idx < NumBatches(file)
    /\ IF file.precision = "Time64Nanosecond"
       THEN /\ batch_idx' = batch_idx + 1
            /\ row_idx' = batch_idx * file.batch_size + 1
            /\ UNCHANGED import_result
       ELSE /\ import_result' =
                 [ok |-> FALSE, err |-> "ColumnWrongFormat",
                  column |-> "Departure_Time", wanted |-> "Time64Nanosecond"]
            /\ UNCHANGED <<batch_idx, row_idx>>
    /\ UNCHANGED <<station_name_map, simulation_steps, lookups, warnings>>
    /\ ImportFrame

\* The body of the loop over the rows of a batch: both names are resolved
\* through the cache (the destination only when the origin is known), and
\* the row's destination and count are pushed on the step of its key.
ImportRow ==
    /\ file # None
    /\ import_result = None
    /\ row_idx # 0
    /\ LET row == file.rows[row_idx]
           c0 == [map |-> station_name_map, lookups |-> lookups,
                  warnings |-> warnings, stop |-> NoStop]
           c1 == GetStopIdx(c0, row.Origin_Station)
           c2 == IF c1.stop.some THEN GetStopIdx(c1, row.Destination_Station)
                 ELSE c1
           departure_time == NsToTimestamp(row.Departure_Time)
           count == AsAgentCount(row.Agent_Count)
       IN /\ station_name_map' = c2.map
          /\ lookups' = c2.lookups
          /\ warnings' = c2.warnings
          /\ simulation_steps' =
                IF c1.stop.some /\ c2.stop.some
                THEN PushEntry(simulation_steps,
                               StepKey(departure_time, c1.stop.idx),
                               c2.stop.idx, count)
                ELSE simulation_steps
    /\ row_idx' = IF row_idx < BatchEnd(file, batch_idx) THEN row_idx + 1 ELSE 0
    /\ UNCHANGED <<batch_idx, import_result>>
    /\ ImportFrame

\* The orders in which a map yields its keys.
Orders(S) ==
    {order \in [1 .. Cardinality(S) -> S] :
        \A i \in DOMAIN order : \A j \in DOMAIN order :
            i # j => order[i] # order[j]}

\* Mutant: an empty map of steps is returned as an empty vector.
ImportOutcomeAlwaysOk(map, order) ==
    [ok |-> TRUE, steps |-> [i \in DOMAIN order |-> map[order[i]]]]

\* What the importer returns for its map of steps, the map yielding its
\* values in the given order.
ImportOutcome(map, order) ==
    IF Cardinality(DOMAIN map) = 0
    THEN [ok |-> FALSE, err |-> "NoDataForDate", date |-> network_date]
    ELSE [ok |-> TRUE, steps |-> [i \in DOMAIN order |-> map[order[i]]]]

\* The reader is exhausted: the importer returns.
ImportFinish ==
    /\ file # None
    /\ import_result = None
    /\ row_idx = 0
    /\ batch_idx = NumBatches(file)
    /\ \E order \in Orders(DOMAIN simulation_steps) :
          import_result' = ImportOutcome(simulation_steps, order)
    /\ UNCHANGED <<batch_idx, row_idx, station_name_map, simulation_steps,
                   lookups, warnings>>
    /\ ImportFrame

ImportNext == ImportBatch \/ ImportRow \/ ImportFinish

ImportSpec == ImportInit /\ [][ImportNext]_vars

\* ------------------------------------------------- what the rounds were given

\* The answers step s received in round k (none: the step issued no query).
RoundJourneys(s, k) ==
    LET calls == SelectSeq(mlsp_calls[s], LAMBDA c : c.round = k) IN
    IF calls = <<>> THEN <<>> ELSE calls[1].journeys

\* The legs of the resolved journeys of round k, each as <<step, journey
\* position, leg position>>.
RoundLegs(k) ==
    UNION {UNION {{<<s, j, l>> : l \in 1 .. Len(RoundJourneys(s, k)[j].legs)} :
                    j \in {i \in 1 .. Len(RoundJourneys(s, k)) :
                             RoundJourneys(s, k)[i].ok}} :
             s \in StepIdx}

LegOf(x, k) == RoundJourneys(x[1], k)[x[2]].legs[x[3]]

CountOf(x) == steps[x[1]].counts[x[2]]

BoardedAt(x, k) == LegIndex(LegOf(x, k), LegOf(x, k).boarded_stop_order)

ArrivalAt(x, k) == LegIndex(LegOf(x, k), LegOf(x, k).arrival_stop_order)

\* The legs of round k that ride over entry idx: boarded <= idx < arrival.
Covering(k, idx) ==
    {x \in RoundLegs(k) : BoardedAt(x, k) <= idx /\ idx < ArrivalAt(x, k)}

\* The exact total of the counts of a set of legs.
RECURSIVE CountTotal(_)
CountTotal(X) ==
    IF X = {} THEN U32(0, 0)
    ELSE LET x == CHOOSE y \in X : TRUE
         IN CountAdd(CountOf(x), CountTotal(X \ {x}))

\* Whether an i32 equals a count, and whether it equals the count negated.
EqualsCount(p, c) == c.hi = 0 /\ p = c.lo

EqualsMinusCount(p, c) ==
    \/ c.hi = 0 /\ p = -c.lo
    \/ c.hi = 1 /\ c.lo = 0 /\ p = -I32Max - 1

\* Every leg of round k boards no later than it alights; strictly earlier.
LegsOrdered(k) ==
    \A x \in RoundLegs(k) :
        LegOf(x, k).boarded_stop_order <= LegOf(x, k).arrival_stop_order

LegsWellFormed(k) ==
    \A x \in RoundLegs(k) :
        LegOf(x, k).boarded_stop_order < LegOf(x, k).arrival_stop_order

\* The counts of round k's resolved journeys total less than 2^31, so that
\* each fits an i32 and no counter leaves the i32 range.
CountsFit(k) == CountTotal(RoundLegs(k)).hi = 0

\* The parallel region of the round in progress has ended.
AllDone == pc = "round" /\ \A s \in StepIdx : task[s].pc = "done"

\* The rounds that returned a result: round k's is simulation_rounds[k + 1].
Finalized == {k \in 0 .. MaxRounds : k < Len(simulation_rounds)}

PopulationOf(k) == simulation_rounds[k + 1].population_count

\* --------------------------------------------------------------- C1

\* Mass conservation as claimed, for every leg and every count.
MassConservedIn(k) ==
    \A idx \in StopTimeIdx :
        EqualsCount(PopulationOf(k)[idx], CountTotal(Covering(k, idx)))

\* The counters of a round with a single leg, before the prefix sum: +c where
\* it boards, -c where it alights, 0 elsewhere.
SingleLegBuffer(k) ==
    \A x \in RoundLegs(k) :
        RoundLegs(k) = {x} =>
            \A idx \in StopTimeIdx :
                IF idx = BoardedAt(x, k)
                THEN EqualsCount(trip_stops_pop[idx], CountOf(x))
                ELSE IF idx = ArrivalAt(x, k)
                     THEN EqualsMinusCount(trip_stops_pop[idx], CountOf(x))
                     ELSE trip_stops_pop[idx] = 0

\* C1: after a round is finalized, every entry of population_count equals the
\* sum of the counts of the legs of resolved journeys that board at or before
\* it and alight after it, and the counters of a round of a single leg hold
\* +c at boarded, -c at arrival and 0 elsewhere before the sum.  The legs are
\* taken to satisfy the Leg invariant, boarded < arrival.
C1_MassConservation ==
    /\ \A k \in Finalized : LegsWellFormed(k) => MassConservedIn(k)
    /\ AllDone /\ LegsWellFormed(round_number) => SingleLegBuffer(round_number)

\* What the range code does guarantee: the same, for the rounds whose legs
\* all board no later than they alight (strictly earlier, for the single-leg
\* buffer) and whose counts total less than 2^31.
MassConservedWhereCountsFit ==
    /\ \A k \in Finalized :
          LegsOrdered(k) /\ CountsFit(k) => MassConservedIn(k)
    /\ AllDone /\ LegsWellFormed(round_number) /\ CountsFit(round_number)
          => SingleLegBuffer(round_number)

\* --------------------------------------------------------------- C2

\* C2: whenever every leg of the round's answers boards strictly before it
\* alights, every entry of the population_count the round returns is >= 0 and
\* the assertion of the prefix-sum loop does not fire, whatever the steps.
C2_Nonnegativity ==
    /\ \A k \in Finalized :
          LegsWellFormed(k) => \A idx \in StopTimeIdx : PopulationOf(k)[idx] >= 0
    /\ pc = "panicked" /\ LegsWellFormed(round_number)
          => panic # "assertion failed: trip[i] >= 0"

\* What the loop does guarantee: the same, when the counts total less than
\* 2^31; then neither the assertion nor cost_fn's debug assertion fires.
NonnegativeWhereCountsFit ==
    /\ \A k \in Finalized :
          LegsWellFormed(k) /\ CountsFit(k)
              => \A idx \in StopTimeIdx : PopulationOf(k)[idx] >= 0
    /\ pc = "panicked" /\ LegsWellFormed(round_number) /\ CountsFit(round_number)
          => panic \notin {"assertion failed: trip[i] >= 0",
                           "Negative population count"}

\* --------------------------------------------------------------- C3

\* How far the workers have applied leg x of round k: "both" updates, only
\* the addition ("added"), or "none".  The legs of earlier rounds are applied.
LegState(x, k) ==
    IF k < round_number THEN "both"
    ELSE LET t == task[x[1]] IN
         IF x[2] - 1 < t.journey_idx THEN "both"
         ELSE IF x[2] - 1 > t.journey_idx \/ x[3] > t.leg THEN "none"
         ELSE IF x[3] < t.leg THEN "both"
         ELSE IF t.phase = "sub" THEN "added" ELSE "none"

\* The counters after leg x's updates so far are applied to buf, one after
\* the other.
ApplyLeg(buf, x, k) ==
    LET state == LegState(x, k)
        leg == LegOf(x, k)
        c == AsPopulationCount(CountOf(x))
        added == [buf EXCEPT ![LegIndex(leg, leg.boarded_stop_order)] =
                                WrappingAdd(@, c)]
    IN IF state = "none" THEN buf
       ELSE IF state = "added" THEN added
       ELSE [added EXCEPT ![LegIndex(leg, leg.arrival_stop_order)] =
                             WrappingSub(@, c)]

\* The legs X applied by a single worker, in a fixed order.
RECURSIVE ApplyLegs(_, _, _)
ApplyLegs(buf, X, k) ==
    IF X = {} THEN buf
    ELSE LET x == CHOOSE y \in X : TRUE
         IN ApplyLegs(ApplyLeg(buf, x, k), X \ {x}, k)

\* The counters a sequential run would hold: a function of the steps, the
\* answers and the progress of each worker alone.
ExpectedCounters(k) == ApplyLegs(ZeroPop, RoundLegs(k), k)

\* C3: in every interleaving of the workers' fetch_add and fetch_sub, the
\* counters hold exactly the updates applied so far (none is lost), so they
\* end in the values the steps and the answers determine, and the
\* population_count of a round is the prefix sum of those values.
C3_Determinism ==
    /\ pc = "round" => trip_stops_pop = ExpectedCounters(round_number)
    /\ \A k \in Finalized :
          PopulationOf(k) = Finalize(ExpectedCounters(k), debug_assertions).pop

\* Both workers are between the addition and the subtraction of a leg that
\* boards at the same entry, which holds both counts.
C3_Witness ==
    /\ pc = "round"
    /\ \A s \in StepIdx : task[s].pc = "running" /\ task[s].phase = "sub"
    /\ \A s \in StepIdx :
          LegIndex(CurrentJourney(s).legs[task[s].leg],
                   CurrentJourney(s).legs[task[s].leg].boarded_stop_order) = 0
    /\ CurrentCount(0) = 2 /\ CurrentCount(1) = 1
    /\ trip_stops_pop[0] = 3

\* --------------------------------------------------------------- C4

AgentJourneysOf(k) == simulation_rounds[k + 1].agent_journeys

\* The sum of step.len() over all steps.
RECURSIVE TotalLen(_)
TotalLen(S) ==
    IF S = {} THEN 0
    ELSE LET s == CHOOSE y \in S : TRUE IN StepLen(steps[s]) + TotalLen(S \ {s})

\* The positions of a vector of results that are for (step s, journey j).
RecordsFor(aj, s, j) ==
    {i \in DOMAIN aj : aj[i].sim_step_idx = s /\ aj[i].journey_idx = j}

\* C4: the agent_journeys of every round holds exactly one result for every
\* (step, destination) pair, and as many results as the steps have
\* destinations, whatever became of each destination.
C4_Totality ==
    \A k \in Finalized :
        /\ Len(AgentJourneysOf(k)) = TotalLen(StepIdx)
        /\ \A s \in StepIdx : \A j \in 0 .. StepLen(steps[s]) - 1 :
              Cardinality(RecordsFor(AgentJourneysOf(k), s, j)) = 1

\* A finalized round whose step 1 had no demand and whose step 0 was
\* answered an error for one destination and a journey for the other.
C4_Witness ==
    /\ 0 \in Finalized
    /\ mlsp_calls[1] = <<>>
    /\ mlsp_calls[0] # <<>>
    /\ ~mlsp_calls[0][1].journeys[1].ok
    /\ mlsp_calls[0][1].journeys[2].ok
    /\ mlsp_calls[0][1].journeys[2].legs # <<>>
    /\ Len(AgentJourneysOf(0)) = 3

\* --------------------------------------------------------------- C5

\* C5: the agent_journeys of every round is sorted by (sim_step_idx,
\* journey_idx), in whatever order the workers processed the steps.
C5_OutputOrder ==
    \A k \in Finalized :
        \A i \in DOMAIN AgentJourneysOf(k) : \A j \in DOMAIN AgentJourneysOf(k) :
            i < j =>
                LET a == AgentJourneysOf(k)[i]
                    b == AgentJourneysOf(k)[j]
                IN \/ a.sim_step_idx < b.sim_step_idx
                   \/ a.sim_step_idx = b.sim_step_idx /\
                      a.journey_idx < b.journey_idx

\* A finalized round in which step 1 finished before step 0, both after a
\* query.
C5_Witness ==
    /\ 0 \in Finalized
    /\ finish_order = <<1, 0>>
    /\ mlsp_calls[0] # <<>> /\ mlsp_calls[1] # <<>>
    /\ AgentJourneysOf(0)[1].sim_step_idx = 0
    /\ AgentJourneysOf(0)[3].sim_step_idx = 1

\* --------------------------------------------------------------- C6

\* The step's counts sum to 0, as sim_step.count() computes the sum.
ZeroDemand(s) ==
    /\ ~CountPanics(steps[s], debug_assertions)
    /\ StepCount(steps[s]).value = U32(0, 0)

\* C6: a step whose counts sum to 0 never issues a query, and the worker that
\* takes it emits exactly one NoJourneyFound per destination, in destination
\* order, and changes no counter.
C6_ZeroDemandStep ==
    [][\A s \in StepIdx :
          ZeroDemand(s) =>
              /\ mlsp_calls'[s] = <<>>
              /\ task[s].pc = "pending" /\ task'[s] # task[s] =>
                    /\ task'[s].pc = "done"
                    /\ Len(task'[s].out) = StepLen(steps[s])
                    /\ \A j \in 1 .. StepLen(steps[s]) :
                          task'[s].out[j] =
                              AgentJourneyResult(s, j - 1,
                                                 ErrJourney("NoJourneyFound"))
                    /\ trip_stops_pop' = trip_stops_pop
                    /\ mlsp_calls' = mlsp_calls]_vars

\* Step 0, without demand, was taken while step 1 was between the two
\* updates of a leg: its two results are there, the counters are as step 1
\* left them, and no query was issued for it.
C6_Witness ==
    /\ pc = "round"
    /\ SumCounts(steps[0].counts) = U32(0, 0)
    /\ task[0].pc = "done"
    /\ Len(task[0].out) = 2
    /\ mlsp_calls[0] = <<>>
    /\ task[1].pc = "running" /\ task[1].phase = "sub"
    /\ finish_order = <<0>>
    /\ trip_stops_pop # ZeroPop

\* --------------------------------------------------------------- C10

\* The journey the running task of step s is at is an error, or has no legs.
Unresolved(s) ==
    /\ pc = "round"
    /\ task[s].pc = "running"
    /\ ~CurrentJourney(s).ok \/ CurrentJourney(s).legs = <<>>

\* The error class recorded for an unresolved journey.
ErrorClass(journey) == IF journey.ok THEN "NoJourneyFound" ELSE journey.err

\* C10: when the worker of step s handles a destination whose answer is an
\* error or has no legs, it appends one error record of the same error class
\* (NoJourneyFound for no legs), changes no counter, issues no query, and
\* goes on to the step's next destination; the run goes on; no step is
\* queried twice in a round.
C10_ErrorsAreData ==
    [][/\ \A s \in StepIdx :
            Unresolved(s) /\ task'[s] # task[s] =>
                /\ task'[s].out =
                      Append(task[s].out,
                             AgentJourneyResult(s, task[s].journey_idx,
                                 ErrJourney(ErrorClass(CurrentJourney(s)))))
                /\ task'[s].journey_idx = task[s].journey_idx + 1
                /\ task'[s].journeys = task[s].journeys
                /\ task'[s].pc =
                      IF task'[s].journey_idx < StepLen(steps[s])
                      THEN "running" ELSE "done"
                /\ trip_stops_pop' = trip_stops_pop
                /\ mlsp_calls' = mlsp_calls
                /\ pc' = "round"
       /\ \A s \in StepIdx :
            \A i \in DOMAIN mlsp_calls'[s] : \A j \in DOMAIN mlsp_calls'[s] :
                i # j => mlsp_calls'[s][i].round # mlsp_calls'[s][j].round]_vars

\* Step 0 recorded an InfiniteLoop for its first destination and then rode
\* a journey for its second; step 1 recorded NoJourneyFound for an answer
\* without legs; each was queried once.
C10_Witness ==
    /\ AllDone
    /\ Len(mlsp_calls[0]) = 1 /\ Len(mlsp_calls[1]) = 1
    /\ task[0].out[1].result = ErrJourney("InfiniteLoop")
    /\ task[0].out[2].result.ok
    /\ task[1].journeys[1].ok /\ task[1].journeys[1].legs = <<>>
    /\ task[1].out[1].result = ErrJourney("NoJourneyFound")
    /\ trip_stops_pop # ZeroPop

\* --------------------------------------------------------------- C7

\* Every query issued so far, of any step.
Calls == UNION {{mlsp_calls[s][i] : i \in DOMAIN mlsp_calls[s]} : s \in StepIdx}

\* C7: every query of round 0 is issued with bag size 1 and with a
\* crowding-cost array of length S that is 0 everywhere, whatever bag size
\* is configured.
C7_RoundZero ==
    \A call \in Calls :
        call.round = 0 =>
            /\ call.bag_size = 1
            /\ DOMAIN call.crowding_cost = 0 .. NumStopTimes - 1
            /\ \A idx \in DOMAIN call.crowding_cost :
                  call.crowding_cost[idx] = ZeroCost

\* A run configured with bag size 7 has issued a query in round 0 and one in
\* round 1, the latter with bag size 5 and a crowding cost that is not 0.
C7_Witness ==
    /\ bag_size = 7
    /\ \E call \in Calls : call.round = 0
    /\ \E call \in Calls :
          /\ call.round = 1
          /\ call.bag_size = 5
          /\ \E idx \in StopTimeIdx : call.crowding_cost[idx] # ZeroCost

\* --------------------------------------------------------------- C8

\* C8: every query of a round k > 0 is issued with the crowding_cost that
\* the finalization of round k - 1 produced.
C8_CrowdingFeedback ==
    \A call \in Calls :
        call.round > 0 =>
            /\ call.round <= Len(simulation_rounds)
            /\ call.crowding_cost = simulation_rounds[call.round].crowding_cost

\* A query of round 2 whose array is neither round 0's nor that of round 2
\* itself, nor 0 everywhere.
C8_Witness ==
    /\ 2 \in Finalized
    /\ \E call \in Calls :
          /\ call.round = 2
          /\ call.crowding_cost # simulation_rounds[1].crowding_cost
          /\ call.crowding_cost # simulation_rounds[3].crowding_cost
          /\ call.crowding_cost # [k \in StopTimeIdx |-> ZeroCost]

\* --------------------------------------------------------------- C9

\* C9: run_simulation returns the population count of the last round, round
\* num_rounds - 1 (the prefix sums of what that round's journeys applied), and
\* one vector of agent journeys per round, round k's at position k.
C9_FinalResult ==
    pc = "returned" =>
        /\ num_rounds >= 1
        /\ result.population_count = PopulationOf(num_rounds - 1)
        /\ result.population_count =
              Finalize(ExpectedCounters(num_rounds - 1), debug_assertions).pop
        /\ Len(result.round_agent_journeys) = num_rounds
        /\ \A k \in 0 .. num_rounds - 1 :
              result.round_agent_journeys[k + 1] = AgentJourneysOf(k)

\* A run of three rounds has returned; the population counts and the agent
\* journeys of its rounds differ from one another.
C9_Witness ==
    /\ pc = "returned"
    /\ num_rounds = 3
    /\ PopulationOf(2) # PopulationOf(0)
    /\ PopulationOf(2) # PopulationOf(1)
    /\ AgentJourneysOf(2) # AgentJourneysOf(1)
    /\ AgentJourneysOf(1) # AgentJourneysOf(0)

\* --------------------------------------------------------------- C11

\* C11: a round in which a journey of positive count has a leg with boarded
\* >= arrival ends in a fatal assertion: no such round returns a result.
C11_MalformedLegsFatal ==
    \A k \in Finalized :
        \A x \in RoundLegs(k) :
            CountOf(x) # U32(0, 0) =>
                LegOf(x, k).boarded_stop_order < LegOf(x, k).arrival_stop_order

\* --------------------------------------------------------------- C12

\* C12: for Linear and Quadratic, a capacity with seated + standing >= 1 and
\* an occupancy x >= 0 with x + 1 an i32, both costs exist and
\* cost(cap, x) <= cost(cap, x + 1).
C12_CostMonotone ==
    probe # None /\ probe.evaluated /\ total(probe.cap) >= 1 /\ probe.x >= 0
        => /\ ~probe.at_x.panicked
           /\ ~probe.at_next.panicked
           /\ CostLeq(probe.at_x.cost, probe.at_next.cost)

\* What the two functions do guarantee: Linear is monotone everywhere, and
\* Quadratic where the square of x + 1 fits an i32 (x + 1 <= 46340).
MonotoneWhereSquareFits ==
    probe # None /\ probe.evaluated /\ total(probe.cap) >= 1 /\ probe.x >= 0
      /\ (probe.func = "Quadratic" => ~MulOverflows(probe.x + 1, probe.x + 1))
        => /\ ~probe.at_x.panicked
           /\ ~probe.at_next.panicked
           /\ CostLeq(probe.at_x.cost, probe.at_next.cost)

\* --------------------------------------------------------------- C13

\* The (route, trip) pairs of the network.
TripsOf ==
    UNION {{<<r, tr>> : tr \in 0 .. routes[r].num_trips - 1} : r \in RouteIdx}

CrowdingCostOf(k) == simulation_rounds[k + 1].crowding_cost

\* The weight of the segment that ends at entry idx (not the first of its
\* trip): the time from the previous arrival to the departure, at least 0.
SegmentWeight(idx) ==
    LET d == stop_times[idx].departure_time - stop_times[idx - 1].arrival_time
    IN IF d > 0 THEN d ELSE 0

\* C13: after finalization, the first entry of every trip costs f(cap, p)
\* for its population p after the prefix sum, every other entry f(cap, p)
\* times the segment's weight, with cap the capacity of the trip's id; and no
\* cost is negative.
C13_SegmentCost ==
    \A k \in Finalized : \A rt \in TripsOf :
        LET range == get_trip_range(rt[1], rt[2])
            cap == TripCapacitiesGet(trip_capacities,
                                     routes[rt[1]].trip_ids[rt[2]])
            f(idx) == crowding_cost_of(cap, PopulationOf(k)[idx])
        IN /\ CrowdingCostOf(k)[range.start] = f(range.start)
           /\ \A i \in 0 .. range.len - 2 :
                 LET idx == range.start + i + 1
                 IN CrowdingCostOf(k)[idx] =
                        RatTimes(f(idx), SegmentWeight(idx))
           /\ \A i \in 0 .. range.len - 1 :
                 CrowdingCostOf(k)[range.start + i][1] >= 0

\* A finalized round with passengers on the middle segment of trip T1, whose
\* departure precedes the previous arrival: that entry costs 0, while the
\* entries of trip T0 cost by their time.
C13_Witness ==
    /\ 0 \in Finalized
    /\ PopulationOf(0)[4] > 0
    /\ CrowdingCostOf(0)[4] = ZeroCost
    /\ CrowdingCostOf(0)[3] # ZeroCost
    /\ PopulationOf(0)[1] = 3
    /\ CrowdingCostOf(0)[1] = <<45, 1>>
    /\ CrowdingCostOf(0)[0] = <<3, 4>>

\* --------------------------------------------------------------- C14

\* The last call that constructed the registry, and the last call of all.
LastConstructor ==
    registry_calls[CHOOSE i \in DOMAIN registry_calls :
        /\ registry_calls[i].op # "set_default_capacity"
        /\ \A j \in DOMAIN registry_calls :
              j > i => registry_calls[j].op = "set_default_capacity"]

LastCall == registry_calls[Len(registry_calls)]

\* What the calls say get(trip_id) is.
ExpectedCapacity(trip_id) ==
    LET given == IF LastConstructor.op = "new" THEN LastConstructor.overrides
                 ELSE EmptyOverrides
    IN IF trip_id \in DOMAIN given THEN given[trip_id]
       ELSE IF LastCall.op = "default" THEN [seated |-> 1, standing |-> 1]
       ELSE LastCall.default

\* C14: after any sequence of constructions and set_default_capacity,
\* get(trip_id) is the override the registry was constructed with, where
\* there is one, and otherwise the default set last; a registry made by
\* Default has default (seated 1, standing 1).
C14_Registry ==
    capacities # None =>
        \A trip_id \in TripIds :
            TripCapacitiesGet(capacities, trip_id) = ExpectedCapacity(trip_id)

\* A registry constructed with overrides for T0 and U0 whose default was
\* then set twice: T0 still has its override, T1 the default set last.
C14_Witness ==
    /\ Len(registry_calls) = 3
    /\ registry_calls[1].op = "new"
    /\ DOMAIN registry_calls[1].overrides = {"T0", "U0"}
    /\ registry_calls[2].op = "set_default_capacity"
    /\ registry_calls[3].op = "set_default_capacity"
    /\ registry_calls[3].default # registry_calls[2].default
    /\ registry_calls[3].default # registry_calls[1].default
    /\ TripCapacitiesGet(capacities, "T0") = [seated |-> 1, standing |-> 0]
    /\ TripCapacitiesGet(capacities, "T1") = registry_calls[3].default

\* ------------------------------------------------ import_trip_capacities

MaxRecords == 2

I32Min == -I32Max - 1

\* A field that is parsed is the sequence of its characters.
DigitValue ==
    ("0" :> 0) @@ ("1" :> 1) @@ ("2" :> 2) @@ ("3" :> 3) @@ ("4" :> 4)
        @@ ("5" :> 5) @@ ("6" :> 6) @@ ("7" :> 7) @@ ("8" :> 8) @@ ("9" :> 9)

NoI32 == [some |-> FALSE]

\* The digits of an i32, accumulated on the side of its sign; a digit that
\* takes the value out of the i32 range is an error.
RECURSIVE ParseDigits(_, _, _)
ParseDigits(digits, negative, acc) ==
    IF Len(digits) = 0 THEN [some |-> TRUE, value |-> acc]
    ELSE IF Head(digits) \notin DOMAIN DigitValue THEN NoI32
    ELSE LET d == DigitValue[Head(digits)]
             magnitude == IF negative THEN -acc ELSE acc
             last == IF negative THEN 8 ELSE 7
         IN IF magnitude > I32Max \div 10
               \/ (magnitude = I32Max \div 10 /\ d > last)
            THEN NoI32
            ELSE ParseDigits(Tail(digits), negative,
                             IF negative THEN acc * 10 - d ELSE acc * 10 + d)

\* field.parse::<PopulationCount>().ok(): an optional sign, then at least
\* one digit and nothing else.
ParseI32(field) ==
    LET signed == Len(field) > 0 /\ Head(field) \in {"+", "-"}
        digits == IF signed THEN Tail(field) ELSE field
    IN IF Len(digits) = 0 THEN NoI32
       ELSE ParseDigits(digits, signed /\ Head(field) = "-", 0)

\* The header rows of the inputs that can be read, the empty row being that
\* of an empty input.
HeaderRows ==
    {<<>>,
     <<"trip_id", "seated", "standing">>,
     <<"trip_id", "seated", "standing", "note">>,
     <<"trip_id", "standing", "seated">>,
     <<"id", "seated", "standing">>,
     <<"trip_id", "seated">>}

RecordRows ==
    {<<"T0", <<"2">>, <<"1">>>>,
     <<"T0", <<"0">>, <<"0">>>>,
     <<"T1", <<"+", "3">>, <<"1", "0">>>>,
     <<"T1", <<"-", "1">>, <<"2">>>>,
     <<"U0", <<"2">>, <<"-", "2">>>>,
     <<"T1", <<"x">>, <<"2">>>>,
     <<"U0", <<"2">>, <<>>>>,
     <<"U0", <<"2", "1", "4", "7", "4", "8", "3", "6", "4", "8">>, <<"1">>>>,
     <<"T1", <<"3">>>>,
     <<"T1", <<"3">>, <<"1">>, "n">>}

\* The inputs: one whose header cannot be read, and those with a header
\* row and records.
CsvInputs ==
    {[readable |-> FALSE, headers |-> <<>>, records |-> <<>>]}
        \cup {[readable |-> TRUE, headers |-> h, records |-> r] :
                h \in HeaderRows,
                r \in UNION {[1 .. n -> RecordRows] : n \in 0 .. MaxRecords}}

NoEntry == [some |-> FALSE]

\* Mutant: a reader that takes records of any length.
ParsedRecordFlexible(headers, record) ==
    IF Len(record) < 3 THEN NoEntry
    ELSE LET seated == ParseI32(record[2])
             standing == ParseI32(record[3])
         IN IF seated.some /\ standing.some
            THEN [some |-> TRUE, trip_id |-> record[1],
                  capacity |-> [seated |-> seated.value,
                                standing |-> standing.value]]
            ELSE NoEntry

\* The closure of filter_map: the reader yields an error for a record that
\* has not as many fields as the header, and a record is dropped when it is
\* an error, lacks a field or has a count that does not parse.
ParsedRecord(headers, record) ==
    IF Len(record) # Len(headers) THEN NoEntry
    ELSE IF Len(record) < 1 THEN NoEntry
    ELSE IF Len(record) < 2 THEN NoEntry
    ELSE LET seated == ParseI32(record[2]) IN
         IF ~seated.some THEN NoEntry
         ELSE IF Len(record) < 3 THEN NoEntry
         ELSE LET standing == ParseI32(record[3]) IN
              IF ~standing.some THEN NoEntry
              ELSE [some |-> TRUE, trip_id |-> record[1],
                    capacity |-> [seated |-> seated.value,
                                  standing |-> standing.value]]

\* collect(): the entries in the order of the records, a later entry
\* replacing an earlier one of the same trip_id.
RECURSIVE Collect(_, _, _)
Collect(headers, records, n) ==
    IF n = 0 THEN EmptyOverrides
    ELSE LET rest == Collect(headers, records, n - 1)
             entry == ParsedRecord(headers, records[n])
         IN IF entry.some THEN (entry.trip_id :> entry.capacity) @@ rest
            ELSE rest

ColumnNotFound(column) ==
    [ok |-> FALSE, err |-> "ColumnNotFound", column |-> column]

HeaderGet(headers, i) ==
    IF i + 1 \in DOMAIN headers THEN headers[i + 1] ELSE "None"

\* What import_trip_capacities returns for an input.
TripCapacitiesOf(input) ==
    IF ~input.readable THEN ColumnNotFound("header")
    ELSE IF HeaderGet(input.headers, 0) # "trip_id"
    THEN ColumnNotFound("trip_id")
    ELSE IF HeaderGet(input.headers, 1) # "seated"
    THEN ColumnNotFound("seated")
    ELSE IF HeaderGet(input.headers, 2) # "standing"
    THEN ColumnNotFound("standing")
    ELSE LET collected == Collect(input.headers, input.records,
                                   Len(input.records))
         IN IF DOMAIN collected = {}
            THEN [ok |-> FALSE, err |-> "NoData"]
            ELSE [ok |-> TRUE, capacities |-> collected]

CapacityImportInit ==
    /\ SimIdle /\ RegistryIdle /\ ImportIdle /\ ProbeIdle
    /\ NarrowingIdle /\ HostIdle
    /\ debug_assertions = FALSE
    /\ csv \in CsvInputs
    /\ capacity_result = None

import_trip_capacities ==
    /\ csv # None
    /\ capacity_result = None
    /\ capacity_result' = TripCapacitiesOf(csv)
    /\ UNCHANGED <<sim_vars, debug_assertions, registry_vars, import_vars,
                   probe, narrowing, host_vars, csv>>

CapacityImportNext == import_trip_capacities

CapacityImportSpec == CapacityImportInit /\ [][CapacityImportNext]_vars

\* ------------------------------------------- what the importer was given

\* The rows of the file whose two names the network resolves.
Resolves(row) ==
    /\ row.Origin_Station \in DOMAIN stations
    /\ row.Destination_Station \in DOMAIN stations

Survivors(f) == {i \in 1 .. Len(f.rows) : Resolves(f.rows[i])}

\* The whole seconds and the origin stop of a surviving row.
KeyOf(row) ==
    <<row.Departure_Time \div NanosPerSecond, stations[row.Origin_Station]>>

\* The (dest_stop, count) entries of the surviving rows of a key, in the
\* order of the file.
RECURSIVE EntriesOf(_, _, _)
EntriesOf(f, key, n) ==
    IF n = 0 THEN <<>>
    ELSE LET row == f.rows[n]
             rest == EntriesOf(f, key, n - 1)
         IN IF Resolves(row) /\ KeyOf(row) = key
            THEN Append(rest, <<stations[row.Destination_Station],
                                AsAgentCount(row.Agent_Count)>>)
            ELSE rest

EntriesIn(step) ==
    [i \in DOMAIN step.dest_stops |-> <<step.dest_stops[i], step.counts[i]>>]

\* The rows the loop has been through.
RowsDone ==
    IF row_idx # 0 THEN row_idx - 1 ELSE BatchEnd(file, batch_idx)

Occurrences(s, x) == Cardinality({i \in DOMAIN s : s[i] = x})

Names(f) ==
    {f.rows[i].Origin_Station : i \in DOMAIN f.rows}
        \cup {f.rows[i].Destination_Station : i \in DOMAIN f.rows}

Returned == import_result # None

ReturnedOk == import_result # None /\ import_result.ok

SchemaError ==
    import_result # None /\ ~import_result.ok
        /\ import_result.err = "ColumnWrongFormat"

\* --------------------------------------------------------------- C15

\* C15: the steps the importer returns partition the surviving rows by
\* (whole seconds of departure, origin stop): no two steps have the same
\* key, the keys are those of the surviving rows, the entries of a step are
\* exactly the (dest_stop, count) of the surviving rows of its key, one
\* entry per row, and each step has as many dest_stops as counts, at least
\* one.
C15_DemandGrouping ==
    ReturnedOk =>
        LET given_back == import_result.steps IN
        /\ \A i \in DOMAIN given_back : \A j \in DOMAIN given_back :
              i # j => StepKey(given_back[i].departure_time, given_back[i].origin_stop)
                         # StepKey(given_back[j].departure_time, given_back[j].origin_stop)
        /\ {<<given_back[i].departure_time, given_back[i].origin_stop>> :
                i \in DOMAIN given_back}
              = {KeyOf(file.rows[r]) : r \in Survivors(file)}
        /\ \A i \in DOMAIN given_back :
              /\ Len(given_back[i].dest_stops) = Len(given_back[i].counts)
              /\ Len(given_back[i].dest_stops) >= 1
              /\ EntriesIn(given_back[i])
                    = EntriesOf(file, <<given_back[i].departure_time,
                                        given_back[i].origin_stop>>,
                                Len(file.rows))

\* Three rows survive, two of one key and one destination and one of
\* another key: two steps are returned, one with both entries unmerged.
C15_Witness ==
    /\ ReturnedOk
    /\ Len(file.rows) = 3
    /\ Len(import_result.steps) = 2
    /\ \E i \in DOMAIN import_result.steps :
          /\ import_result.steps[i].dest_stops = <<1, 1>>
          /\ import_result.steps[i].counts = <<U32(0, 1), U32(0, 2)>>

\* --------------------------------------------------------------- C16

\* C16: a row with a name the network does not resolve adds no entry to any
\* step and every other row adds one; the network is asked at most once
\* for each name, and at most one warning is logged for each unknown name
\* (and none for a known one).
C16_UnresolvedStations ==
    file # None =>
        /\ \A name \in Names(file) :
              /\ Occurrences(lookups, name) <= 1
              /\ Occurrences(warnings, name) <= 1
              /\ name \in DOMAIN stations => Occurrences(warnings, name) = 0
        /\ (import_result = None /\ file.precision = "Time64Nanosecond") =>
              \A key \in {KeyOf(file.rows[r]) : r \in Survivors(file)}
                           \cup DOMAIN simulation_steps :
                  EntriesOf(file, key, RowsDone)
                    = IF key \in DOMAIN simulation_steps
                      THEN EntriesIn(simulation_steps[key]) ELSE <<>>

\* A file naming the unknown station X in two rows and with one row that
\* survives: one lookup of X, one warning, one step with one entry.
C16_Witness ==
    /\ ReturnedOk
    /\ Len(file.rows) = 3
    /\ Cardinality({r \in DOMAIN file.rows :
                       "X" \in {file.rows[r].Origin_Station,
                                file.rows[r].Destination_Station}}) = 2
    /\ Occurrences(lookups, "X") = 1
    /\ warnings = <<"X">>
    /\ Len(import_result.steps) = 1
    /\ Len(import_result.steps[1].counts) = 1

\* --------------------------------------------------------------- C17

\* C17: unless a column has the wrong element type, the importer returns
\* NoDataForDate(network.date) exactly when no row survives station
\* resolution, a file without rows included, and a non-empty vector of
\* steps otherwise.
C17_NoDataForDate ==
    (Returned /\ ~SchemaError) =>
        /\ Survivors(file) = {} <=>
              import_result = [ok |-> FALSE, err |-> "NoDataForDate",
                               date |-> network_date]
        /\ Survivors(file) # {} =>
              import_result.ok /\ Len(import_result.steps) >= 1

\* A file of three rows, none of which survives, is answered with
\* NoDataForDate.
C17_Witness ==
    /\ Returned
    /\ Len(file.rows) = 3
    /\ Survivors(file) = {}
    /\ ~import_result.ok
    /\ import_result.err = "NoDataForDate"
    /\ import_result.date = network_date

\* --------------------------------------------------------------- C18

HeaderAsExpected(input) ==
    /\ input.readable
    /\ Len(input.headers) >= 3
    /\ SubSeq(input.headers, 1, 3) = <<"trip_id", "seated", "standing">>

\* The records the reader yields whose two counts parse.
Parseable(input) ==
    {r \in DOMAIN input.records :
        /\ Len(input.records[r]) = Len(input.headers)
        /\ ParseI32(input.records[r][2]).some
        /\ ParseI32(input.records[r][3]).some}

\* The last parseable record of a trip_id.
LastOf(input, trip_id) ==
    CHOOSE r \in Parseable(input) :
        /\ input.records[r][1] = trip_id
        /\ \A q \in Parseable(input) :
              input.records[q][1] = trip_id => q <= r

\* --------------------------------------------------------------- C19

\* C19: when the first three header fields are not trip_id, seated,
\* standing the import fails with a column-not-found error; otherwise it
\* fails with NoData exactly when no record is parseable, and else returns
\* the map of the parseable records: their trip ids, each with the counts
\* of its last parseable record.
C19_CapacityImport ==
    capacity_result # None =>
        IF ~HeaderAsExpected(csv)
        THEN ~capacity_result.ok /\ capacity_result.err = "ColumnNotFound"
        ELSE /\ Parseable(csv) = {} <=>
                   capacity_result = [ok |-> FALSE, err |-> "NoData"]
             /\ Parseable(csv) # {} =>
                   /\ capacity_result.ok
                   /\ DOMAIN capacity_result.capacities
                         = {csv.records[r][1] : r \in Parseable(csv)}
                   /\ \A trip_id \in DOMAIN capacity_result.capacities :
                         LET record == csv.records[LastOf(csv, trip_id)] IN
                         capacity_result.capacities[trip_id]
                           = [seated |-> ParseI32(record[2]).value,
                              standing |-> ParseI32(record[3]).value]

\* An input with a good header of four fields, a record of four fields
\* and one of three: the map has the one trip of the record that the
\* reader yields.
C19_Witness ==
    /\ capacity_result # None
    /\ capacity_result.ok
    /\ Len(csv.headers) = 4
    /\ Len(csv.records) = 2
    /\ Len(csv.records[1]) = 3
    /\ ParseI32(csv.records[1][2]).some /\ ParseI32(csv.records[1][3]).some
    /\ csv.records[1][1] # csv.records[2][1]
    /\ DOMAIN capacity_result.capacities = {csv.records[2][1]}

\* --------------------------------------------------------------- C20

\* C20: every capacity in the map returned by import_trip_capacities has
\* seated >= 0 and standing >= 0.
C20_CapacitiesNonnegative ==
    (capacity_result # None /\ capacity_result.ok) =>
        \A trip_id \in DOMAIN capacity_result.capacities :
            /\ capacity_result.capacities[trip_id].seated >= 0
            /\ capacity_result.capacities[trip_id].standing >= 0

\* --------------------------------------------------------------- C24

\* C24: every query of a round k >= 1 is dispatched with the configured
\* bag size clamped into 2 .. 5 (2 for a smaller one, 5 for a larger one),
\* every query of any round with a bag size in 1 .. 5, and the run never
\* ends in the unreachable arm of the dispatch.
C24_BagSizeDispatch ==
    /\ panic # "unreachable"
    /\ pc = "round" => round_bag_size \in 1 .. 5
    /\ \A call \in Calls :
          /\ call.bag_size \in 1 .. 5
          /\ call.round >= 1 =>
                call.bag_size = IF bag_size < 2 THEN 2
                                ELSE IF bag_size > 5 THEN 5 ELSE bag_size

\* A run configured with bag size 0 has issued a query in round 0 with bag
\* size 1 and queries in rounds 1 and 2 with bag size 2.
C24_Witness ==
    /\ bag_size = 0
    /\ \E call \in Calls : call.round = 0 /\ call.bag_size = 1
    /\ \E call \in Calls : call.round = 1 /\ call.bag_size = 2
    /\ \E call \in Calls : call.round = 2 /\ call.bag_size = 2

\* --------------------------------------------------------------- C23

\* The step that snapshots the counters and sums them (it may end in a
\* failed assertion): the run leaves the parallel region without a further
\* progress callback.
SnapshotStep == pc = "round" /\ pc' # "round" /\ progress' = progress

\* C23: the snapshot and the prefix sum of a round are taken only when the
\* closure of every step has returned, and not a counter changes in or after
\* that step until the next round; a query of round k is issued, and a
\* counter updated for round k, only when exactly the rounds 0 .. k - 1 have
\* been finalized, so that no two rounds overlap.
C23_PhaseOrdering ==
    [][/\ SnapshotStep =>
            /\ \A s \in StepIdx : task[s].pc = "done"
            /\ task' = task
       /\ pc # "round" => trip_stops_pop' = ZeroPop \/ trip_stops_pop' = trip_stops_pop
       /\ pc # "round" => mlsp_calls' = mlsp_calls
       /\ (mlsp_calls' # mlsp_calls \/ (pc = "round" /\ trip_stops_pop' # trip_stops_pop)) =>
            /\ Len(simulation_rounds) = round_number
            /\ simulation_rounds' = simulation_rounds
       /\ \A s \in StepIdx :
            mlsp_calls'[s] # mlsp_calls[s] =>
                /\ Len(mlsp_calls'[s]) = Len(mlsp_calls[s]) + 1
                /\ mlsp_calls'[s][Len(mlsp_calls'[s])].round = round_number
                /\ round_number > 0 =>
                      mlsp_calls'[s][Len(mlsp_calls'[s])].crowding_cost
                        = simulation_rounds[round_number].crowding_cost
       /\ simulation_rounds' # simulation_rounds =>
            /\ Len(simulation_rounds') = round_number + 1
            /\ pc' = "start"]_vars

\* Round 1 is in its parallel region with round 0 finalized: step 0 has been
\* queried in both rounds and has updated the counters of round 1, while
\* step 1 has still to be taken.
C23_Witness ==
    /\ pc = "round"
    /\ round_number = 1
    /\ Len(simulation_rounds) = 1
    /\ Len(mlsp_calls[0]) = 2
    /\ task[0].pc = "done"
    /\ task[1].pc = "pending"
    /\ trip_stops_pop # ZeroPop

\* --------------------------------------------------------------- C25

\* The Ok records of the finalized rounds, each as <<round, position>>.
OkRecords ==
    UNION {{<<k, p>> : p \in {q \in DOMAIN AgentJourneysOf(k) :
                                AgentJourneysOf(k)[q].result.ok}} :
             k \in Finalized}

\* C25: every Ok AgentJourney has at least one leg, its origin_trip is the
\* trip of its first leg and its dest_trip the trip of its last, its
\* num_transfers is the number of its legs less one, its count and dest_stop
\* are the step's entries at its journey_idx, its start_time is the step's
\* departure_time, and its legs, duration and crowding_cost are those of the
\* journey the MLSP returned at that index.
C25_AgentJourneyShape ==
    \A x \in OkRecords :
        LET rec == AgentJourneysOf(x[1])[x[2]]
            r == rec.result
            step == steps[rec.sim_step_idx]
            given == RoundJourneys(rec.sim_step_idx, x[1])
            j == rec.journey_idx + 1
        IN /\ r.legs # <<>>
           /\ r.origin_trip = r.legs[1].trip
           /\ r.dest_trip = r.legs[Len(r.legs)].trip
           /\ r.num_transfers = Len(r.legs) - 1
           /\ j \in DOMAIN step.counts /\ r.count = step.counts[j]
           /\ j \in DOMAIN step.dest_stops /\ r.dest_stop = step.dest_stops[j]
           /\ r.start_time = step.departure_time
           /\ j \in DOMAIN given /\ given[j].ok
           /\ r.legs = given[j].legs
           /\ r.duration = given[j].duration
           /\ r.crowding_cost = given[j].cost

\* A finalized round holds the record of a journey of two legs on different
\* trips, made for the second destination of step 0 with a positive count.
C25_Witness ==
    \E x \in OkRecords :
        LET rec == AgentJourneysOf(x[1])[x[2]] IN
        /\ rec.sim_step_idx = 0
        /\ rec.journey_idx = 1
        /\ Len(rec.result.legs) = 2
        /\ rec.result.origin_trip # rec.result.dest_trip
        /\ rec.result.num_transfers = 1
        /\ rec.result.count = U32(0, 1)
        /\ rec.result.dest_stop = 3
        /\ rec.result.duration = 310

\* --------------------------------------------------------------- C26

\* Every leg of round k boards and alights at a stop order of its trip.
LegsInsideTrips(k) ==
    \A x \in RoundLegs(k) :
        LET leg == LegOf(x, k)
            num_stops == routes[leg.trip.route_idx].num_stops
        IN /\ leg.boarded_stop_order \in 0 .. num_stops - 1
           /\ leg.arrival_stop_order \in 0 .. num_stops - 1

\* The entry of the last stop order of trip tr.
LastEntry(tr) ==
    LET range == get_trip_range(tr[1], tr[2]) IN range.start + range.len - 1

\* C26: in every finalized round whose legs all lie inside their trips, the
\* entry at the last stop order of every trip is 0 after the prefix sum (so
\* it is not negative, whatever the counts and the legs were).
C26_LastEntryZero ==
    \A k \in Finalized :
        LegsInsideTrips(k) =>
            \A tr \in TripsOf : PopulationOf(k)[LastEntry(tr)] = 0

\* A finalized round in which a trip carried agents to its last stop: the
\* entry before the last is positive, a leg alights at the last, and the
\* last entry is 0.
C26_Witness ==
    \E k \in Finalized :
        /\ LegsInsideTrips(k)
        /\ \E tr \in TripsOf :
              /\ PopulationOf(k)[LastEntry(tr) - 1] > 0
              /\ PopulationOf(k)[LastEntry(tr)] = 0
              /\ \E x \in RoundLegs(k) :
                    /\ ArrivalAt(x, k) = LastEntry(tr)
                    /\ CountOf(x) # U32(0, 0)

\* --------------------------------------------------------------- C27

\* export_agent_journeys' assertion on a result: every round has as many
\* agent journeys as the first.
AgentJourneyCountsMatch(simulation_result) ==
    \A k \in DOMAIN simulation_result.round_agent_journeys :
        Len(simulation_result.round_agent_journeys[k])
            = Len(simulation_result.round_agent_journeys[1])

\* C27: in the result run_simulation returns, the agent_journeys of all
\* rounds have the same length and position i holds the result of the same
\* (sim_step_idx, journey_idx) in every round, so that the assertion of
\* export_agent_journeys holds of it.
C27_StableAgentIndexing ==
    pc = "returned" =>
        /\ AgentJourneyCountsMatch(result)
        /\ \A k \in DOMAIN result.round_agent_journeys :
              LET first == result.round_agent_journeys[1]
                  kth == result.round_agent_journeys[k]
              IN /\ DOMAIN kth = DOMAIN first
                 /\ \A i \in DOMAIN kth :
                       /\ kth[i].sim_step_idx = first[i].sim_step_idx
                       /\ kth[i].journey_idx = first[i].journey_idx

\* A run of three rounds has returned, and a position that holds a journey
\* in the first round holds an error in the second.
C27_Witness ==
    /\ pc = "returned"
    /\ num_rounds = 3
    /\ \E i \in DOMAIN result.round_agent_journeys[1] :
          /\ result.round_agent_journeys[1][i].result.ok
          /\ ~result.round_agent_journeys[2][i].result.ok
          /\ result.round_agent_journeys[3][i].result.ok

\* --------------------------------------------------------------- C29

\* C29: a run of num_rounds = 0 runs no round (no counters allocated, no
\* step taken, no query, no progress callback), returns no SimulationResult,
\* and its only step is the failure of last_mut().unwrap() on the empty
\* list of rounds.
C29_ZeroRounds ==
    /\ num_rounds = 0 /\ pc # "idle" =>
          /\ pc \in {"start", "panicked"}
          /\ result = None
          /\ simulation_rounds = <<>>
          /\ progress = 0
          /\ Calls = {}
          /\ \A s \in StepIdx : task[s].pc = "pending"
          /\ pc = "panicked" => panic = "called Option::unwrap() on a None value"
          /\ pc = "start" => panic = "none"
    /\ pc = "returned" => num_rounds >= 1

\* The run of no rounds has failed.
C29_Witness ==
    /\ num_rounds = 0
    /\ pc = "panicked"
    /\ panic = "called Option::unwrap() on a None value"
    /\ \E s \in StepIdx : StepCount(steps[s]).value # U32(0, 0)

\* ------------------------------------------------- a count's narrowing

\* The Agent_Count values of the rows: around every multiple of 2^31 from
\* -MaxHigh * 2^31 to MaxHigh * 2^31.
AgentCountValues ==
    {I64(hi, lo) : hi \in -MaxHigh .. MaxHigh,
                   lo \in (0 .. MaxCount) \cup {I32Max - 1, I32Max}}

\* The two entries of a trip that a leg of the row's journey touches.
EmptyTrip == [i \in 0 .. 1 |-> 0]

NarrowingInit ==
    /\ SimIdle /\ RegistryIdle /\ ImportIdle /\ CapacityImportIdle
    /\ ProbeIdle /\ HostIdle
    /\ debug_assertions = FALSE
    /\ narrowing \in [Agent_Count : AgentCountValues, stage : {"row"}]

NarrowingFrame ==
    UNCHANGED <<sim_vars, debug_assertions, registry_vars, import_vars,
                capacity_import_vars, probe, host_vars>>

\* The importer reads the row: the count pushed to the step is the cast of
\* num_agents[i].
PushCount ==
    /\ narrowing # None
    /\ narrowing.stage = "row"
    /\ narrowing' = [Agent_Count |-> narrowing.Agent_Count,
                     stage |-> "imported",
                     count |-> I64AsU32(narrowing.Agent_Count)]
    /\ NarrowingFrame

\* A leg of the row's journey boards: the count is cast and added.
BoardCount ==
    /\ narrowing # None
    /\ narrowing.stage = "imported"
    /\ LET delta == AsPopulationCount(narrowing.count) IN
         narrowing' = [Agent_Count |-> narrowing.Agent_Count,
                       stage |-> "boarded",
                       count |-> narrowing.count,
                       delta |-> delta,
                       trip |-> fetch_add(EmptyTrip, 0, delta)]
    /\ NarrowingFrame

\* The leg alights: the same cast count is subtracted.
AlightCount ==
    /\ narrowing # None
    /\ narrowing.stage = "boarded"
    /\ narrowing' = [narrowing EXCEPT
                        !.stage = "alighted",
                        !.trip = fetch_sub(@, 1,
                                     AsPopulationCount(narrowing.count))]
    /\ NarrowingFrame

NarrowingNext == PushCount \/ BoardCount \/ AlightCount

NarrowingSpec == NarrowingInit /\ [][NarrowingNext]_vars

\* --------------------------------------------------------------- C28

\* Whether an i32 equals an i64.
EqualsI64(d, x) ==
    \/ x.hi = 0 /\ d = x.lo
    \/ x.hi = -1 /\ d = (x.lo - I32Max) - 1

\* x mod 2^32 read as a signed 32-bit value.
Signed32(x) == IF x.hi % 2 = 1 THEN (x.lo - I32Max) - 1 ELSE x.lo

Applied == narrowing # None /\ narrowing.stage \in {"boarded", "alighted"}

\* C28 as claimed: the delta applied equals the row's Agent_Count exactly
\* when 0 <= Agent_Count < 2^31.
C28_ExactOnlyWhenNonnegative ==
    Applied =>
        (EqualsI64(narrowing.delta, narrowing.Agent_Count)
            <=> narrowing.Agent_Count.hi = 0)

\* C28, amended: the count imported is Agent_Count mod 2^32 and the delta
\* applied is that value read as a signed 32-bit integer, whatever the
\* Agent_Count (none is rejected); the delta equals the Agent_Count exactly
\* when -2^31 <= Agent_Count < 2^31; it is added where the leg boards and
\* subtracted where it alights.
C28_CountNarrowing ==
    /\ narrowing # None /\ narrowing.stage # "row" =>
          /\ narrowing.count.hi = narrowing.Agent_Count.hi % 2
          /\ narrowing.count.lo = narrowing.Agent_Count.lo
    /\ Applied =>
          /\ narrowing.delta = Signed32(narrowing.Agent_Count)
          /\ EqualsI64(narrowing.delta, narrowing.Agent_Count)
                <=> narrowing.Agent_Count.hi \in {-1, 0}
          /\ narrowing.trip[0] = narrowing.delta
          /\ narrowing.stage = "alighted" =>
                narrowing.trip[1] = WrappingSub(0, narrowing.delta)

\* A row of Agent_Count -1 has been imported as u32::MAX and applied as -1.
C28_Witness ==
    /\ narrowing # None
    /\ narrowing.stage = "alighted"
    /\ narrowing.Agent_Count = I64(-1, I32Max)
    /\ narrowing.count = U32Max
    /\ narrowing.delta = -1
    /\ narrowing.trip = (0 :> -1) @@ (1 :> 1)

\* ------------------------------------------------------------- the host

\* Option::Some
Some(v) == [none |-> FALSE, value |-> v]

\* CmdResult: Ok, and the errors of the commands.
Ok == [ok |-> TRUE]

PrerequisiteUnsatisfied(item) ==
    [ok |-> FALSE, err |-> "PrerequisiteUnsatisfied", item |-> item]

MutexPoisoned == [ok |-> FALSE, err |-> "MutexPoisoned"]

\* The command has not answered; it never will, its task having panicked.
Pending == [pending |-> TRUE]

Panicked == [panicked |-> TRUE]

\* The files the user picks in patronage_data_import: what the importer
\* makes of them.  Step 1 has no demand; step 0 has one agent, or the
\* u32::MAX that a row of Agent_Count -1 is imported as.
HostDemands ==
    {(0 :> SimulationStep(0, 0, <<2>>, <<c>>)) @@
     (1 :> SimulationStep(50, 1, <<2>>, <<U32(0, 0)>>)) :
        c \in {U32(0, 1), U32Max}}

\* What the MLSP answers in the host's runs.
HostAnswers ==
    {ErrJourney("NoJourneyFound"),
     OkJourney(<<>>, 0, ZeroCost),
     OkJourney(<<Leg(0, 0, 0, 2)>>, 120, <<1, 2>>)}

\* What the front end passes as num_rounds (a u16) and bag_size.
HostRounds == 0 .. MaxHostRounds

HostBagSizes == {3}

\* SimulationEvent::Started
Started(rounds, num_steps) ==
    [type |-> "Started", num_rounds |-> rounds, num_steps |-> num_steps]

\* AppStateData::default() behind a new mutex.
HostInit ==
    /\ SimIdle /\ RegistryIdle /\ ImportIdle /\ CapacityImportIdle
    /\ ProbeIdle /\ NarrowingIdle
    /\ debug_assertions = FALSE
    /\ app_data = [loaded_gtfs |-> FALSE, network |-> FALSE,
                   sim_steps |-> None, sim_result |-> None,
                   trip_data |-> {}]
    /\ lock = "free"
    /\ reply = None

HostFrame ==
    UNCHANGED <<debug_assertions, registry_vars, import_vars,
                capacity_import_vars, probe, narrowing>>

\* A command that answers at once: its answer, and what it leaves of
\* app_data.  state.data.lock() blocks while a run holds the mutex.
Answer(cmd, res, data) ==
    /\ lock # "held"
    /\ reply' = [cmd |-> cmd, result |-> res]
    /\ app_data' = data
    /\ UNCHANGED <<sim_vars, lock>>
    /\ HostFrame

\* state.data.lock()?: the command goes on with the mutex, or answers
\* MutexPoisoned when a command panicked holding it.
Locked(cmd, res, data) ==
    IF lock = "poisoned" THEN Answer(cmd, MutexPoisoned, app_data)
    ELSE Answer(cmd, res, data)

\* AppStateData's getters, as the error they answer (Ok: the item is there).
get_loaded_gtfs ==
    IF app_data.loaded_gtfs THEN Ok
    ELSE PrerequisiteUnsatisfied("GTFS data must be loaded first.")

get_network ==
    IF app_data.network THEN Ok
    ELSE PrerequisiteUnsatisfied("Network must be generated first.")

get_sim_steps ==
    IF app_data.sim_steps # None THEN Ok
    ELSE PrerequisiteUnsatisfied("Patronage data must be imported first.")

get_sim_result ==
    IF app_data.sim_result # None THEN Ok
    ELSE PrerequisiteUnsatisfied("Simulation must be run first.")

\* load_gtfs: the feed is read and checked for shapes before the mutex is
\* taken.
load_gtfs(has_shapes) ==
    IF ~has_shapes
    THEN Answer("load_gtfs",
                PrerequisiteUnsatisfied("GTFS data must contain shapes."),
                app_data)
    ELSE Locked("load_gtfs", Ok, [app_data EXCEPT !.loaded_gtfs = TRUE])

gen_network(date_in_range) ==
    IF ~get_loaded_gtfs.ok THEN Locked("gen_network", get_loaded_gtfs, app_data)
    ELSE IF ~date_in_range
    THEN Locked("gen_network",
                PrerequisiteUnsatisfied(
                    "Model date must be within the GTFS date range."),
                app_data)
    ELSE Locked("gen_network", Ok, [app_data EXCEPT !.network = TRUE])

\* patronage_data_import: the user cancels the dialog, or picks a file that
\* is imported.
patronage_data_import(cancelled, imported) ==
    IF ~get_network.ok
    THEN Locked("patronage_data_import", get_network, app_data)
    ELSE IF cancelled THEN Locked("patronage_data_import", Ok, app_data)
    ELSE Locked("patronage_data_import", Ok,
                [app_data EXCEPT !.sim_steps = Some(imported)])

\* export_counts and export_journeys begin alike.
Export(cmd) ==
    IF ~get_network.ok THEN Locked(cmd, get_network, app_data)
    ELSE IF ~get_sim_result.ok THEN Locked(cmd, get_sim_result, app_data)
    ELSE Locked(cmd, Ok, app_data)

export_counts == Export("export_counts")

export_journeys == Export("export_journeys")

\* run_simulation, the command: with the mutex and both prerequisites it
\* sends Started, builds the parameters with its callback and enters the
\* library's run_simulation, keeping the mutex.
run_simulation(rounds, bag) ==
    IF lock = "poisoned" \/ ~get_network.ok \/ ~get_sim_steps.ok
    THEN Locked("run_simulation",
                IF ~get_network.ok THEN get_network ELSE get_sim_steps,
                app_data)
    ELSE /\ lock = "free"
         /\ lock' = "held"
         /\ reply' = [cmd |-> "run_simulation", result |-> Pending]
         /\ steps' = app_data.sim_steps.value
         /\ events' = <<Started(rounds, Cardinality(DOMAIN steps'))>>
         /\ progress_callback' = "Some"
         /\ num_rounds' = rounds
         /\ bag_size' = bag
         /\ pc' = "start"
         /\ panic' = "none"
         /\ simulation_rounds' = <<>>
         /\ round_number' = 0
         /\ crowding_cost' = <<>>
         /\ round_bag_size' = 0
         /\ trip_stops_pop' = ZeroPop
         /\ task' = [s \in DOMAIN steps' |-> IdleTask]
         /\ mlsp_calls' = [s \in DOMAIN steps' |-> <<>>]
         /\ progress' = 0
         /\ finish_order' = <<>>
         /\ result' = None
         /\ UNCHANGED app_data
         /\ HostFrame

\* The command's locals are dropped; the channel keeps what was sent.
SimDropped ==
    /\ steps' = <<>>
    /\ num_rounds' = 0
    /\ bag_size' = 0
    /\ pc' = "idle"
    /\ panic' = "none"
    /\ simulation_rounds' = <<>>
    /\ round_number' = 0
    /\ crowding_cost' = <<>>
    /\ round_bag_size' = 0
    /\ trip_stops_pop' = ZeroPop
    /\ task' = <<>>
    /\ mlsp_calls' = <<>>
    /\ progress' = 0
    /\ progress_callback' = "None"
    /\ finish_order' = <<>>
    /\ result' = None
    /\ UNCHANGED events

\* The entries export_network_trips reads, those of the departures.
DepartureEntries ==
    UNION {{get_trip_range(tr[1], tr[2]).start + i :
                i \in 0 .. get_trip_range(tr[1], tr[2]).len - 2} :
            tr \in UNION {{<<r, k>> : k \in 0 .. routes[r].num_trips - 1} :
                             r \in RouteIdx}}

\* export_network_trips: the segments that carry agents, with their counts.
export_network_trips(simulation_result) ==
    {<<i, simulation_result.population_count[i]>> :
        i \in {j \in DepartureEntries :
                 simulation_result.population_count[j] # 0}}

\* The library has returned: the trips are exported, both are stored and
\* the command answers Ok, releasing the mutex.
run_simulation_returns ==
    /\ lock = "held"
    /\ pc = "returned"
    /\ app_data' = [app_data EXCEPT
                       !.sim_result = Some(result),
                       !.trip_data = export_network_trips(result)]
    /\ reply' = [cmd |-> "run_simulation", result |-> Ok]
    /\ lock' = "free"
    /\ SimDropped
    /\ HostFrame

\* The library has panicked: the unwinding drops the guard, which poisons
\* the mutex, and the command never answers.
run_simulation_unwinds ==
    /\ lock = "held"
    /\ pc = "panicked"
    /\ reply' = [cmd |-> "run_simulation", result |-> Panicked]
    /\ lock' = "poisoned"
    /\ SimDropped
    /\ UNCHANGED app_data
    /\ HostFrame

HostNext ==
    \/ \E has_shapes \in BOOLEAN : load_gtfs(has_shapes)
    \/ \E date_in_range \in BOOLEAN : gen_network(date_in_range)
    \/ \E cancelled \in BOOLEAN, imported \in HostDemands :
          patronage_data_import(cancelled, imported)
    \/ \E rounds \in HostRounds, bag \in HostBagSizes :
          run_simulation(rounds, bag)
    \/ StartRound
    \/ \E s \in StepIdx : StepZeroCount(s)
    \/ \E s \in StepIdx : StepQuery(s, HostAnswers)
    \/ \E s \in StepIdx : JourneyErr(s)
    \/ \E s \in StepIdx : JourneyEmpty(s)
    \/ \E s \in StepIdx : LegBoard(s)
    \/ \E s \in StepIdx : LegAlight(s)
    \/ FinalizeRound
    \/ Finish
    \/ run_simulation_returns
    \/ run_simulation_unwinds
    \/ export_counts
    \/ export_journeys

HostSpec == HostInit /\ [][HostNext]_vars

\* --------------------------------------------------------------- C21

\* The host's command is running the library.
Running == lock = "held"

\* How many steps of the round in progress have been taken.
StepsTaken ==
    IF pc \in {"round", "panicked"}
    THEN Cardinality({s \in StepIdx : task[s].pc # "pending"})
    ELSE 0

\* C21: in a run of the host, Started is the first event sent and the only
\* one of its kind, and every other event is the StepCompleted of one call
\* of the progress callback; the callback has been called once for every
\* step of every finalized round and once for every step taken in the round
\* in progress, with or without demand, and at no other time; so a run that
\* returns has called it num_rounds * num_steps times.
C21_ProgressEvents ==
    Running =>
        /\ events # <<>>
        /\ events[1] = Started(num_rounds, Cardinality(StepIdx))
        /\ \A i \in 2 .. Len(events) : events[i].type = "StepCompleted"
        /\ Len(events) - 1 = progress
        /\ progress = Len(simulation_rounds) * Cardinality(StepIdx) + StepsTaken
        /\ pc = "returned" =>
              Len(events) - 1 = num_rounds * Cardinality(StepIdx)

\* A run of two rounds over two steps, one of them without demand, has
\* returned: Started and four StepCompleted were sent.
C21_Witness ==
    /\ Running
    /\ pc = "returned"
    /\ num_rounds = 2
    /\ Cardinality(StepIdx) = 2
    /\ \E s \in StepIdx : StepCount(steps[s]).value = U32(0, 0)
    /\ Len(events) = 5

\* --------------------------------------------------------------- C22

\* The step is the answer of command cmd.
Answers(cmd) == reply' # reply /\ reply'.cmd = cmd

Unsatisfied(res) == ~res.ok /\ res.err = "PrerequisiteUnsatisfied"

\* What the claim says of one step of the host.
PrerequisiteStep ==
    /\ Answers("run_simulation") /\ ~Running
         /\ (~app_data.network \/ app_data.sim_steps = None) =>
            /\ reply'.result =
                 IF ~app_data.network
                 THEN PrerequisiteUnsatisfied("Network must be generated first.")
                 ELSE PrerequisiteUnsatisfied(
                          "Patronage data must be imported first.")
            /\ events' = events
            /\ app_data'.sim_result = app_data.sim_result
            /\ app_data'.trip_data = app_data.trip_data
    /\ Answers("gen_network") /\ ~app_data.loaded_gtfs =>
            reply'.result =
                PrerequisiteUnsatisfied("GTFS data must be loaded first.")
    /\ Answers("patronage_data_import") /\ ~app_data.network =>
            reply'.result =
                PrerequisiteUnsatisfied("Network must be generated first.")
    /\ \A cmd \in {"export_counts", "export_journeys"} :
          Answers(cmd) /\ app_data.sim_result = None =>
              /\ Unsatisfied(reply'.result)
              /\ app_data.network =>
                    reply'.result =
                        PrerequisiteUnsatisfied("Simulation must be run first.")

\* C22: run_simulation answers PrerequisiteUnsatisfied with the missing item
\* when the network or the demand is missing, sending no event and leaving
\* sim_result and trip_data as they are; gen_network without loaded GTFS,
\* patronage_data_import without a network and the exports without a
\* simulation result answer PrerequisiteUnsatisfied as well.
C22_Prerequisites == [][PrerequisiteStep]_vars

\* The same holds of every command that obtains the mutex.
PrerequisitesWhereLockTaken == [][lock # "poisoned" => PrerequisiteStep]_vars

====
